---- MODULE Spec2Model ----
(***************************************************************************)
(* A model of the x402 payment facilitator:                                *)
(*   - the nonce store (src/src/nonce_store.rs): the in-memory backend and *)
(*     the DynamoDB backend behind the NonceStore trait;                   *)
(*   - the Algorand provider (src/src/chain/algorand.rs): verify, settle,  *)
(*     submit_group and wait_for_confirmation.                             *)
(*   - the discovery aggregator (src/src/discovery_aggregator.rs): the     *)
(*     polling cycle, its pagination, the conversion of peer resources and *)
(*     the background task;                                                *)
(*   - the pure helpers: the TTL derivation of the nonce store and the     *)
(*     proof of payment of the ERC-8004 adapter (src/src/erc8004).         *)
(* Each subsystem has its own specification (SpecNonce, SpecAlgorand,      *)
(* SpecAggregator, SpecPure); the variables of the other subsystems stay   *)
(* at their initial value.  SpecLockstep gives the same calls to both      *)
(* nonce backends, SpecConcurrentSettles runs two settles of one group on  *)
(* one provider, SpecAggregatorFair adds the scheduling of the task.       *)
(***************************************************************************)
EXTENDS Integers, Sequences, FiniteSets, TLC

\* ---------------------------------------------------------------- bounds
\* The wall clock (seconds) runs from 0 to MaxTime.
MaxTime == 2
\* ttl_seconds is drawn from 0..MaxTtl.
MaxTtl == 1
\* The chain's rounds run from 0 to MaxRound.
MaxRound == 1

\* ------------------------------------------------------- partial functions
\* HashMap / table contents are functions whose DOMAIN is the set of keys held.
EmptyMap == << >>

MapPut(m, k, v) == [x \in (DOMAIN m) \cup {k} |-> IF x = k THEN v ELSE m[x]]

MapRemove(m, k) == [x \in (DOMAIN m) \ {k} |-> m[x]]

\* ---------------------------------------------------------------- state
\* The nonce store.
VARIABLES
    store_type,   \* which backend create_nonce_store installed
    clock,        \* SystemTime::now() as Unix seconds
    data,         \* MemoryNonceStore.data : key -> expires_at
    table,        \* the DynamoDB table : pk -> item
    callers       \* the tasks calling check_and_mark_used

nonceVars == <<store_type, clock, data, table, callers>>

\* The Algorand provider and the chain it talks to.
VARIABLES
    provider_network,  \* AlgorandProvider.chain.network
    nonce_store,       \* AlgorandProvider.nonce_store : group_id -> round
    last_round,        \* the chain's current round (algod status)
    submitted,         \* the group ids the node has taken from send_transactions
    calls              \* the verify / settle calls in progress

algorandVars == <<provider_network, nonce_store, last_round, submitted, calls>>

\* The discovery aggregator, its background task and the peers it polls.
VARIABLES
    facilitators,   \* DiscoveryAggregator.facilitators : the peer configs
    aggregation,    \* the background task of start_aggregation_task
    http_log,       \* the GET requests of the current cycle, in order
    import_log      \* the bulk_import calls of the current cycle, in order

aggregatorVars == <<facilitators, aggregation, http_log, import_log>>

\* The last application of one of the program's pure functions.
VARIABLES
    applied         \* [fn, args, result]

pureVars == <<applied>>

vars == <<nonceVars, algorandVars, aggregatorVars, pureVars>>

\* =========================================================================
\*                               NONCE STORE
\* =========================================================================
\* Nonce keys, split at '#': <<chain, ...>>.
Keys == { <<"algorand", "group", "abab">>, <<"stellar", "GABC123", "12345">> }

\* The tasks that call the store concurrently.
Callers == {"c1", "c2"}

Ttls == 0..MaxTtl

\* let chain = key.split('#').next()
KeyChain(key) == key[1]

IdleCaller == [pc |-> "idle"]

\* Faulty variants of Memory_check_and_mark_used: the comparison with the stored
\* expires_at dropped; a rejection that refreshes the stored expires_at.
Memory_check_and_mark_used_refresh(d, key, ttl, now) ==
    IF key \in DOMAIN d /\ d[key] > now
    THEN [result |-> "NonceAlreadyUsed", data |-> MapPut(d, key, now + ttl)]
    ELSE [result |-> "Ok", data |-> MapPut(MapRemove(d, key), key, now + ttl)]

Memory_check_and_mark_used_nocheck(d, key, ttl, now) ==
    [result |-> "Ok", data |-> MapPut(MapRemove(d, key), key, now + ttl)]

\* MemoryNonceStore::check_and_mark_used, the part under the write lock.
Memory_check_and_mark_used(d, key, ttl, now) ==
    IF key \in DOMAIN d /\ d[key] > now
    THEN [result |-> "NonceAlreadyUsed", data |-> d]
    ELSE [result |-> "Ok", data |-> MapPut(MapRemove(d, key), key, now + ttl)]

\* The condition expression of the conditional put:
\* "attribute_not_exists(pk) OR expires_at < :now".
PutItemCondition(t, key, now) ==
    key \notin DOMAIN t \/ t[key].expires_at < now

\* Faulty variant of Dynamo_check_and_mark_used: every error of put_item is
\* taken for the failed condition.
Dynamo_check_and_mark_used_all_used(t, key, ttl, now, fault) ==
    LET item == [pk |-> key, chain |-> KeyChain(key),
                 created_at |-> now, expires_at |-> now + ttl]
    IN  IF ~fault /\ PutItemCondition(t, key, now)
        THEN [result |-> "Ok", table |-> MapPut(t, key, item)]
        ELSE [result |-> "NonceAlreadyUsed", table |-> t]

\* DynamoNonceStore::check_and_mark_used: the conditional put_item and the
\* mapping of its outcome. fault: the service or the transport failed the
\* request for another reason than the condition. The table changes through
\* put_item only (the service's sweep of expired items is not modelled).
Dynamo_check_and_mark_used(t, key, ttl, now, fault) ==
    LET item == [pk |-> key, chain |-> KeyChain(key),
                 created_at |-> now, expires_at |-> now + ttl]
    IN  IF fault
        THEN [result |-> "WriteError", table |-> t]
        ELSE IF PutItemCondition(t, key, now)
             THEN [result |-> "Ok", table |-> MapPut(t, key, item)]
             ELSE [result |-> "NonceAlreadyUsed", table |-> t]

\* create_nonce_store: one backend per process, chosen at startup; both
\* backends start empty.
NonceInit ==
    /\ store_type \in {"memory", "dynamodb"}
    /\ clock = 0
    /\ data = EmptyMap
    /\ table = EmptyMap
    /\ callers = [c \in Callers |-> IdleCaller]

\* check_and_mark_used, up to the first suspension point: the caller reads the
\* clock (let now = Self::current_timestamp()) and then waits for the write
\* lock (memory) or for the put_item response (DynamoDB).
\* raced (history): the callers already in flight on the same key.
Sample(c) ==
    /\ callers[c].pc = "idle"
    /\ \E key \in Keys, ttl \in Ttls :
          callers' = [callers EXCEPT ![c] =
                         [pc |-> "sampled", key |-> key, ttl |-> ttl, now |-> clock,
                          raced |-> {d \in Callers \ {c} :
                                        /\ callers[d].pc = "sampled"
                                        /\ callers[d].key = key}]]
    /\ UNCHANGED <<store_type, clock, data, table, algorandVars, aggregatorVars, pureVars>>

\* The caller holds the write lock: check, insert, return.
MemoryComplete(c) ==
    /\ store_type = "memory"
    /\ callers[c].pc = "sampled"
    /\ LET r == Memory_check_and_mark_used(data, callers[c].key, callers[c].ttl, callers[c].now)
       IN  /\ data' = r.data
           /\ callers' = [callers EXCEPT ![c] =
                             [pc |-> "done", key |-> callers[c].key, ttl |-> callers[c].ttl,
                              now |-> callers[c].now, raced |-> callers[c].raced,
                              result |-> r.result]]
    /\ UNCHANGED <<store_type, clock, table, algorandVars, aggregatorVars, pureVars>>

\* The put_item request is served (atomically, by the table) and answered.
DynamoComplete(c) ==
    /\ store_type = "dynamodb"
    /\ callers[c].pc = "sampled"
    /\ \E fault \in BOOLEAN :
          LET r == Dynamo_check_and_mark_used(table, callers[c].key, callers[c].ttl,
                                          callers[c].now, fault)
          IN  /\ table' = r.table
              /\ callers' = [callers EXCEPT ![c] =
                                [pc |-> "done", key |-> callers[c].key, ttl |-> callers[c].ttl,
                                 now |-> callers[c].now, raced |-> callers[c].raced,
                                 result |-> r.result]]
    /\ UNCHANGED <<store_type, clock, data, algorandVars, aggregatorVars, pureVars>>

\* The caller has its result and may call again (its finished call leaves the
\* history of the calls it raced with).
Return(c) ==
    /\ callers[c].pc = "done"
    /\ callers' = [d \in Callers |->
                      IF d = c THEN IdleCaller
                      ELSE IF callers[d].pc = "idle" THEN callers[d]
                      ELSE [callers[d] EXCEPT !.raced = @ \ {c}]]
    /\ UNCHANGED <<store_type, clock, data, table, algorandVars, aggregatorVars, pureVars>>

\* Faulty variant of Memory_is_used: the read drops a record it finds expired.
Memory_is_used_evicts(d, key, now) ==
    IF key \in DOMAIN d
    THEN [result |-> IF d[key] > now THEN "true" ELSE "false",
          data |-> IF d[key] > now THEN d ELSE MapRemove(d, key)]
    ELSE [result |-> "false", data |-> d]

\* MemoryNonceStore::is_used, the part under the read lock: Ok(true) or
\* Ok(false), and the map as the read leaves it.
Memory_is_used(d, key, now) ==
    IF key \in DOMAIN d
    THEN [result |-> IF d[key] > now THEN "true" ELSE "false", data |-> d]
    ELSE [result |-> "false", data |-> d]

\* DynamoNonceStore::is_used: get_item and the comparison of the item's
\* expires_at with now. fault: get_item failed.
Dynamo_is_used(t, key, now, fault) ==
    IF fault THEN "ReadError"
    ELSE IF key \in DOMAIN t
    THEN IF t[key].expires_at > now THEN "true" ELSE "false"
    ELSE "false"

\* is_used, up to its suspension point: the caller reads the clock and then
\* waits for the read lock (memory) or for the get_item response (DynamoDB).
IsUsedSample(c) ==
    /\ callers[c].pc = "idle"
    /\ \E key \in Keys :
          callers' = [callers EXCEPT ![c] =
                         [pc |-> "q_sampled", key |-> key, now |-> clock, raced |-> {}]]
    /\ UNCHANGED <<store_type, clock, data, table, algorandVars, aggregatorVars, pureVars>>

\* The caller holds the read lock: look up, compare, return.
MemoryIsUsed(c) ==
    /\ store_type = "memory"
    /\ callers[c].pc = "q_sampled"
    /\ LET r == Memory_is_used(data, callers[c].key, callers[c].now)
       IN  /\ data' = r.data
           /\ callers' = [callers EXCEPT ![c] =
                             [pc |-> "q_done", key |-> callers[c].key,
                              now |-> callers[c].now, raced |-> {},
                              result |-> r.result]]
    /\ UNCHANGED <<store_type, clock, table, algorandVars, aggregatorVars, pureVars>>

\* The get_item request is served and answered.
DynamoIsUsed(c) ==
    /\ store_type = "dynamodb"
    /\ callers[c].pc = "q_sampled"
    /\ \E fault \in BOOLEAN :
          callers' = [callers EXCEPT ![c] =
                         [pc |-> "q_done", key |-> callers[c].key,
                          now |-> callers[c].now, raced |-> {},
                          result |-> Dynamo_is_used(table, callers[c].key,
                                                    callers[c].now, fault)]]
    /\ UNCHANGED <<store_type, clock, data, table, algorandVars, aggregatorVars, pureVars>>

\* The caller has the answer of is_used.
IsUsedReturn(c) ==
    /\ callers[c].pc = "q_done"
    /\ callers' = [callers EXCEPT ![c] = IdleCaller]
    /\ UNCHANGED <<store_type, clock, data, table, algorandVars, aggregatorVars, pureVars>>

\* A second passes.
Tick ==
    /\ clock < MaxTime
    /\ clock' = clock + 1
    /\ UNCHANGED <<store_type, data, table, callers, algorandVars, aggregatorVars, pureVars>>

\* =========================================================================
\*                            ALGORAND PROVIDER
\* =========================================================================
\* pub const USDC_ASA_ID_MAINNET / USDC_ASA_ID_TESTNET
USDC_ASA_ID_MAINNET == 31566704
USDC_ASA_ID_TESTNET == 10458941
\* const MAX_ATTEMPTS in wait_for_confirmation
MAX_ATTEMPTS == 20

\* Option<T> and Result<T, _> values are sets of at most one element:
\* {} is None (or a decoding error), {v} is Some(v) (or Ok(v)).
None == {}

Some(v) == {v}

is_some(o) == o # {}

The(o) == CHOOSE v \in o : TRUE

\* Network tags: the two Algorand networks and one network of another chain.
AlgorandNetworks == {"algorand", "algorand-testnet"}

Networks == AlgorandNetworks \cup {"base"}

\* Faulty variant of usdc_asa_id: the two ids exchanged.
usdc_asa_id_exchanged(network) ==
    IF network = "algorand" THEN USDC_ASA_ID_TESTNET ELSE USDC_ASA_ID_MAINNET

\* impl TryFrom<Network> for AlgorandChain: the network's USDC ASA id.
usdc_asa_id(network) ==
    IF network = "algorand" THEN USDC_ASA_ID_MAINNET ELSE USDC_ASA_ID_TESTNET

\* 32-byte group ids.
GroupIds == {"G1", "G2"}

\* The transactions a slot of payment_group can decode to. An address-valued
\* optional field is None or Some("ATTACKER").
OptAddress == {None, Some("ATTACKER")}

OptGroup == {None} \cup {Some(g) : g \in GroupIds}

\* Unsigned transactions (decode_transaction succeeds).
FeeTxs ==
    [close_remainder_to : OptAddress, rekey_to : OptAddress,
     asset_close_to : OptAddress, group : OptGroup]

AssetTransfers ==
    [xfer : {USDC_ASA_ID_MAINNET, USDC_ASA_ID_TESTNET}, amount : {1},
     receiver : {"MERCHANT"}]

\* last_valid of a signed payment: None or round 0.
OptLastValid == {None, Some(0)}

\* The transactions a client signs.
PaymentTxs ==
    [sender : {"PAYER"}, group : OptGroup,
     asset_transfer_transaction : {None} \cup {Some(a) : a \in AssetTransfers},
     last_valid : OptLastValid]

\* Client-signed transactions (decode_signed_transaction succeeds).
SignedTxs == [transaction : PaymentTxs, sig : {"client"}]

\* A pass-through transaction of a group of three.
OtherSignedTx ==
    [transaction |-> [sender |-> "OTHER", group |-> Some("G1"),
                      asset_transfer_transaction |-> None, last_valid |-> None],
     sig |-> "client"]

\* One base64 string of payment_group, given by what the two decoders make
\* of it: tx = decode_transaction(bytes), stx = decode_signed_transaction(bytes).
DecodeResults(S) == {None} \cup {Some(x) : x \in S}

\* Slot 0 is read by decode_transaction only, unless payment_index = 0.
FeeSlots == [tx : DecodeResults(FeeTxs), stx : {None}]

\* Slot i > 0 is read by decode_signed_transaction only.
PaymentSlots == [tx : {None}, stx : DecodeResults(SignedTxs)]

OtherSlots == [tx : {None}, stx : DecodeResults({OtherSignedTx})]

\* Slot 0 of a payload with payment_index = 0: both decoders read it.
BothSlots == [tx : DecodeResults(FeeTxs), stx : DecodeResults(SignedTxs)]

\* ExactAlgorandPayload { payment_group, payment_index } (payment_index is
\* 0-based; payment_group[i] of the code is payment_group[i + 1] here).
AlgorandPayloads ==
    \* groups of two and three with the payment at payment_index >= 1
    {[payment_group |-> <<f, p>>, payment_index |-> 1] :
        f \in FeeSlots, p \in PaymentSlots}
    \cup {[payment_group |-> <<f, p, o>>, payment_index |-> 1] :
        f \in FeeSlots, p \in PaymentSlots, o \in OtherSlots}
    \cup {[payment_group |-> <<f, o, p>>, payment_index |-> 2] :
        f \in FeeSlots, p \in PaymentSlots, o \in OtherSlots}
    \* payment_index = 0
    \cup {[payment_group |-> <<b, [tx |-> None, stx |-> Some(OtherSignedTx)]>>,
           payment_index |-> 0] : b \in BothSlots}
    \* groups too short, payment_index past the end
    \cup {[payment_group |-> g, payment_index |-> i] :
        g \in {<< >>, <<[tx |-> None, stx |-> None]>>}, i \in {0, 1}}
    \cup {[payment_group |-> <<[tx |-> None, stx |-> None],
                               [tx |-> None, stx |-> None]>>,
           payment_index |-> i] : i \in {2, 3}}

\* A payload the network and variant checks stop before it is read.
UnreadPayload == [payment_group |-> << >>, payment_index |-> 0]

\* The requests a provider of network n is given: PaymentPayload { network,
\* payload: ExactPaymentPayload }, the variant being Algorand or another one.
Requests(n) ==
    {[variant |-> "Algorand", network |-> n, payload |-> p] : p \in AlgorandPayloads}
    \cup {[variant |-> "Algorand", network |-> m, payload |-> UnreadPayload] :
            m \in Networks \ {n}}
    \cup {[variant |-> "Evm", network |-> m, payload |-> UnreadPayload] :
            m \in {n, "base"}}

\* decode_transaction / decode_signed_transaction on one slot.
decode_transaction(slot) == slot.tx

decode_signed_transaction(slot) == slot.stx

\* AlgorandError values.
Ok(v) == [ok |-> TRUE, value |-> v]

Err(e) == [ok |-> FALSE, error |-> e]

\* validate_fee_transaction
validate_fee_transaction(tx) ==
    IF is_some(tx.close_remainder_to)
    THEN Err([name |-> "ForbiddenFeeField", field |-> "close_remainder_to"])
    ELSE IF is_some(tx.rekey_to)
    THEN Err([name |-> "ForbiddenFeeField", field |-> "rekey_to"])
    ELSE Ok("unit")

\* verify_payment_group, up to the call of algod.status(): the structural
\* checks. Ok carries the decoded transactions and the group id.
verify_payment_group_checks(payload, usdc) ==
    LET pg  == payload.payment_group
        idx == payload.payment_index
    IN
    IF Len(pg) < 2
    THEN Err([name |-> "InvalidAtomicGroup", msg |-> "Group must have at least 2 transactions"])
    ELSE IF idx >= Len(pg)
    THEN Err([name |-> "PaymentIndexOutOfBounds", index |-> idx, len |-> Len(pg)])
    ELSE IF ~is_some(decode_transaction(pg[1]))
    THEN Err([name |-> "InvalidEncoding"])
    ELSE LET fee_tx == The(decode_transaction(pg[1])) IN
    IF ~validate_fee_transaction(fee_tx).ok
    THEN validate_fee_transaction(fee_tx)
    ELSE IF ~is_some(decode_signed_transaction(pg[idx + 1]))
    THEN Err([name |-> "InvalidEncoding"])
    ELSE LET payment_signed == The(decode_signed_transaction(pg[idx + 1])) IN
    IF ~is_some(fee_tx.group) \/ ~is_some(payment_signed.transaction.group)
    THEN Err([name |-> "InvalidGroupId"])
    ELSE IF The(fee_tx.group) # The(payment_signed.transaction.group)
    THEN Err([name |-> "InvalidAtomicGroup", msg |-> "Group IDs do not match"])
    ELSE IF ~is_some(payment_signed.transaction.asset_transfer_transaction)
    THEN Err([name |-> "InvalidAtomicGroup", msg |-> "Payment must be an asset transfer"])
    ELSE LET asset_transfer == The(payment_signed.transaction.asset_transfer_transaction) IN
    IF asset_transfer.xfer # usdc
    THEN Err([name |-> "AsaIdMismatch", expected |-> usdc, actual |-> asset_transfer.xfer])
    ELSE Ok([fee_tx |-> fee_tx, payment_signed |-> payment_signed,
             group_id |-> The(fee_tx.group), asset_transfer |-> asset_transfer])

\* Faulty variant of verify_payment_group_result: a payment whose last_valid
\* is the current round is taken as expired.
verify_payment_group_result_le(checked, current_round) ==
    LET last_valid == checked.payment_signed.transaction.last_valid IN
    IF is_some(last_valid) /\ The(last_valid) <= current_round
    THEN Err([name |-> "TransactionExpired", expiry_round |-> The(last_valid),
              current_round |-> current_round])
    ELSE Ok([payer |-> checked.payment_signed.transaction.sender,
             fee_tx |-> checked.fee_tx,
             payment_signed |-> checked.payment_signed,
             group_id |-> checked.group_id,
             amount |-> checked.asset_transfer.amount,
             recipient |-> checked.asset_transfer.receiver,
             current_round |-> current_round])

\* verify_payment_group, after algod.status() answered last_round: the
\* validity window, then the VerifyGroupResult.
verify_payment_group_result(checked, current_round) ==
    LET last_valid == checked.payment_signed.transaction.last_valid IN
    IF is_some(last_valid) /\ The(last_valid) < current_round
    THEN Err([name |-> "TransactionExpired", expiry_round |-> The(last_valid),
              current_round |-> current_round])
    ELSE Ok([payer |-> checked.payment_signed.transaction.sender,
             fee_tx |-> checked.fee_tx,
             payment_signed |-> checked.payment_signed,
             group_id |-> checked.group_id,
             amount |-> checked.asset_transfer.amount,
             recipient |-> checked.asset_transfer.receiver,
             current_round |-> current_round])

\* impl From<AlgorandError> for FacilitatorLocalError
to_facilitator_error(e) == [name |-> "Other", cause |-> e]

\* verify / settle, up to the call of verify_payment_group: the payload
\* variant, then the network; then the structural checks of the group.
entry_checks(request, network) ==
    IF request.variant # "Algorand"
    THEN Err([name |-> "UnsupportedNetwork"])
    ELSE IF request.network # network
    THEN Err([name |-> "NetworkMismatch", expected |-> network, actual |-> request.network])
    ELSE LET c == verify_payment_group_checks(request.payload, usdc_asa_id(network))
         IN  IF c.ok THEN c ELSE Err(to_facilitator_error(c.error))

\* Faulty variant of after_verification: verify goes on like settle.
after_verification_submits(op) == "submit_group"

\* What follows a successful verify_payment_group: verify answers, settle
\* goes on to submit_group.
after_verification(op) == IF op = "verify" THEN "respond" ELSE "submit_group"

\* The answers of algod.pending_transaction_with_id.
PollAnswers == {"confirmed", "pending", "pending_rejected", "rpc_error"}

\* Faulty variants of wait_for_confirmation_poll: the loop ends with Ok(()) when the
\* attempts are used up; an answer that is an error counts as a confirmation.
wait_for_confirmation_poll_gives_up_ok(attempt, info) ==
    IF info = "confirmed" THEN "Ok"
    ELSE IF attempt < MAX_ATTEMPTS THEN "continue"
    ELSE "Ok"

\* Faulty variant of wait_for_confirmation_poll: one attempt too many.
wait_for_confirmation_poll_one_more(attempt, info) ==
    IF info = "confirmed" THEN "Ok"
    ELSE IF attempt <= MAX_ATTEMPTS THEN "continue"
    ELSE "NotConfirmed"

wait_for_confirmation_poll_error_ok(attempt, info) ==
    IF info \in {"confirmed", "rpc_error"} THEN "Ok"
    ELSE IF attempt < MAX_ATTEMPTS THEN "continue"
    ELSE "NotConfirmed"

\* One iteration of the loop of wait_for_confirmation: Ok(()) on a
\* confirmed_round, the next attempt, or TransactionNotConfirmed.
wait_for_confirmation_poll(attempt, info) ==
    IF info = "confirmed" THEN "Ok"
    ELSE IF attempt < MAX_ATTEMPTS THEN "continue"
    ELSE "NotConfirmed"

\* Faulty variant of settle_response: a failure of submit_group is raised with `?`.
settle_response_raises(submitted_tx, verification, network) ==
    IF submitted_tx.ok
    THEN Ok([success |-> TRUE, error_reason |-> None, payer |-> verification.payer,
             transaction |-> Some(submitted_tx.value), network |-> network])
    ELSE Err([name |-> "Other", cause |-> submitted_tx.error])

\* Faulty variant of settle_response: the failure response names no reason.
settle_response_no_reason(submitted_tx, verification, network) ==
    IF submitted_tx.ok
    THEN Ok([success |-> TRUE, error_reason |-> None, payer |-> verification.payer,
             transaction |-> Some(submitted_tx.value), network |-> network])
    ELSE Ok([success |-> FALSE, error_reason |-> None,
             payer |-> verification.payer, transaction |-> None, network |-> network])

\* settle, from the result of submit_group to the SettleResponse.
settle_response(submitted_tx, verification, network) ==
    IF submitted_tx.ok
    THEN Ok([success |-> TRUE, error_reason |-> None, payer |-> verification.payer,
             transaction |-> Some(submitted_tx.value), network |-> network])
    ELSE Ok([success |-> FALSE, error_reason |-> Some("UnexpectedSettleError"),
             payer |-> verification.payer, transaction |-> None, network |-> network])

\* The transaction ids algod.send_transactions may return.
TxIds == {"TX1", "TX2"}

\* The tasks running verify or settle on the provider.
Tasks == {"t1"}

NoRequest == [variant |-> "none", network |-> "none", payload |-> UnreadPayload]

IdleCall ==
    [pc |-> "idle", op |-> "none", request |-> NoRequest, checked |-> None,
     verification |-> None, signed_group |-> << >>, tx_id |-> None, attempt |-> 0,
     submit_error |-> None, trace |-> << >>, store_at_start |-> EmptyMap,
     pool_error |-> FALSE, response |-> None]

\* AlgorandProvider::try_new: an Algorand network, an empty nonce_store.
AlgorandInit ==
    /\ provider_network \in AlgorandNetworks
    /\ nonce_store = EmptyMap
    /\ last_round = 0
    /\ submitted = {}
    /\ calls = [t \in Tasks |-> IdleCall]

\* The call of task t ends with response r.
Respond(t, call, r) == [call EXCEPT !.pc = "done", !.response = Some(r)]

\* submit_group failed with AlgorandError e: settle answers.
SubmitFailed(t, call, e) ==
    Respond(t, [call EXCEPT !.submit_error = Some(e)],
            settle_response(Err(e), The(call.verification), provider_network))

\* verify(request) or settle(request) is called and runs to its first
\* suspension point, the status request of verify_payment_group.
\* store_at_start (history): nonce_store as the call found it.
AlgorandStart(t) ==
    /\ calls[t].pc = "idle"
    /\ \E op \in {"verify", "settle"}, request \in Requests(provider_network) :
          LET c    == entry_checks(request, provider_network)
              call == [IdleCall EXCEPT !.op = op, !.request = request,
                                       !.store_at_start = nonce_store]
          IN  calls' = [calls EXCEPT ![t] =
                           IF c.ok
                           THEN [call EXCEPT !.pc = "status", !.checked = Some(c.value)]
                           ELSE Respond(t, call, c)]
    /\ UNCHANGED <<provider_network, nonce_store, last_round, submitted, nonceVars, aggregatorVars, pureVars>>

\* algod.status() answers, with last_round or with an error; verify returns
\* here, settle goes on to submit_group.
StatusResponse(t) ==
    /\ calls[t].pc = "status"
    /\ \E rpc_ok \in BOOLEAN :
          LET call == calls[t]
              v    == verify_payment_group_result(The(call.checked), last_round)
          IN  calls' = [calls EXCEPT ![t] =
                 IF ~rpc_ok
                 THEN Respond(t, call, Err(to_facilitator_error([name |-> "RpcError"])))
                 ELSE IF ~v.ok
                 THEN Respond(t, call, Err(to_facilitator_error(v.error)))
                 ELSE LET verified == [call EXCEPT !.verification = Some(v.value),
                                                   !.trace = Append(@, "verified")]
                      IN  IF after_verification(call.op) = "respond"
                          THEN Respond(t, verified, Ok([valid |-> TRUE, payer |-> v.value.payer]))
                          ELSE [verified EXCEPT !.pc = "submit_group"]]
    /\ UNCHANGED <<provider_network, nonce_store, last_round, submitted, nonceVars, aggregatorVars, pureVars>>

\* Faulty variant of reassemble_group: only the client's transactions are
\* pushed, the fee slot is left out.
reassemble_group_without_fee(pg, signed_fee) ==
    [i \in 1..(Len(pg) - 1) |-> The(decode_signed_transaction(pg[i + 1]))]

\* submit_group, the loop over payment_group.iter().enumerate(): slot 0 is
\* the fee transaction with the facilitator's signature, every other slot the
\* decoded client-signed transaction (all of them decode here).
reassemble_group(pg, signed_fee) ==
    [i \in 1..Len(pg) |->
        IF i = 1 THEN signed_fee ELSE The(decode_signed_transaction(pg[i]))]

\* submit_group, up to the send_transactions request: the facilitator account
\* signs the fee transaction, the group is reassembled, and it is sent.
SignAndSend(t) ==
    /\ calls[t].pc = "submit_group"
    /\ \E sign_ok \in BOOLEAN :
          LET call   == calls[t]
              pg     == call.request.payload.payment_group
              signed_fee == [transaction |-> The(call.verification).fee_tx,
                             sig |-> "facilitator"]
              signed == [call EXCEPT !.trace = Append(@, "signed")]
          IN  calls' = [calls EXCEPT ![t] =
                 IF ~sign_ok
                 THEN SubmitFailed(t, call, [name |-> "InvalidEncoding"])
                 ELSE IF \E i \in 2..Len(pg) : ~is_some(decode_signed_transaction(pg[i]))
                 THEN SubmitFailed(t, signed, [name |-> "InvalidEncoding"])
                 ELSE [signed EXCEPT
                          !.pc = "send",
                          !.signed_group = reassemble_group(pg, signed_fee)]]
    /\ UNCHANGED <<provider_network, nonce_store, last_round, submitted, nonceVars, aggregatorVars, pureVars>>

\* algod.send_transactions answers: the node took the group and names a
\* transaction id, or the submission failed.
SendResponse(t) ==
    /\ calls[t].pc = "send"
    /\ LET call == calls[t] IN
       \/ \E id \in TxIds :
             /\ submitted' = submitted \cup {The(call.verification).group_id}
             /\ calls' = [calls EXCEPT ![t] =
                             [call EXCEPT !.pc = "poll", !.tx_id = Some(id),
                                          !.attempt = 1,
                                          !.trace = Append(@, "submitted")]]
       \/ /\ submitted' = submitted
          /\ calls' = [calls EXCEPT ![t] =
                          SubmitFailed(t, call, [name |-> "SubmissionFailed"])]
    /\ UNCHANGED <<provider_network, nonce_store, last_round, nonceVars, aggregatorVars, pureVars>>

\* wait_for_confirmation: after the sleep, one pending_transaction_with_id
\* request and its answer. The trace records a confirmation the node reported;
\* pool_error (history) records an answer that was pending with a pool_error.
Poll(t) ==
    /\ calls[t].pc = "poll"
    /\ \E info \in PollAnswers :
          LET call == calls[t]
              seen == IF info = "confirmed"
                      THEN [call EXCEPT !.trace = Append(@, "confirmed")]
                      ELSE IF info = "pending_rejected"
                      THEN [call EXCEPT !.pool_error = TRUE]
                      ELSE call
              r    == wait_for_confirmation_poll(call.attempt, info)
          IN  calls' = [calls EXCEPT ![t] =
                 IF r = "Ok" THEN [seen EXCEPT !.pc = "mark"]
                 ELSE IF r = "continue" THEN [seen EXCEPT !.attempt = @ + 1]
                 ELSE SubmitFailed(t, seen, [name |-> "TransactionNotConfirmed",
                                             attempts |-> MAX_ATTEMPTS])]
    /\ UNCHANGED <<provider_network, nonce_store, last_round, submitted, nonceVars, aggregatorVars, pureVars>>

\* submit_group takes the write lock of nonce_store and inserts the group
\* id; settle answers with the transaction id.
MarkNonce(t) ==
    /\ calls[t].pc = "mark"
    /\ LET call == calls[t]
           v    == The(call.verification)
       IN  /\ nonce_store' = MapPut(nonce_store, v.group_id, v.current_round)
           /\ calls' = [calls EXCEPT ![t] =
                           Respond(t, [call EXCEPT !.trace = Append(@, "marked")],
                                   settle_response(Ok(The(call.tx_id)), v, provider_network))]
    /\ UNCHANGED <<provider_network, last_round, submitted, nonceVars, aggregatorVars, pureVars>>

\* The caller has its response; the task takes the next request.
AlgorandReturn(t) ==
    /\ calls[t].pc = "done"
    /\ calls' = [calls EXCEPT ![t] = IdleCall]
    /\ UNCHANGED <<provider_network, nonce_store, last_round, submitted, nonceVars, aggregatorVars, pureVars>>

\* The chain produces a block.
ChainAdvance ==
    /\ last_round < MaxRound
    /\ last_round' = last_round + 1
    /\ UNCHANGED <<provider_network, nonce_store, submitted, calls, nonceVars, aggregatorVars, pureVars>>

\* =========================================================================
\*                     PURE HELPERS: TTL DERIVATION
\* =========================================================================
\* The width of u32 and of u64, scaled so that the arithmetic stays within
\* the integers of the checker: as with 32 and 64 bits, a u32 times 5 plus
\* 3600 always fits a u64, while a u64 times 4 need not.
U32Bits == 11

U64Bits == 16

U32_MAX == 2^U32Bits - 1

U64_MAX == 2^U64Bits - 1

\* a.saturating_sub(b) on unsigned integers.
saturating_sub(a, b) == IF a >= b THEN a - b ELSE 0

\* `a * b` on u64.  With overflow checks (debug builds) an overflow panics;
\* without them (release builds) the product wraps.
u64_mul(a, b, overflow_checks) ==
    IF a * b > U64_MAX
    THEN IF overflow_checks THEN [panicked |-> TRUE, value |-> 0]
         ELSE [panicked |-> FALSE, value |-> (a * b) % (U64_MAX + 1)]
    ELSE [panicked |-> FALSE, value |-> a * b]

\* `x + b` on u64, x the outcome of the preceding operation.
u64_add(x, b, overflow_checks) ==
    IF x.panicked THEN x
    ELSE IF x.value + b > U64_MAX
    THEN IF overflow_checks THEN [panicked |-> TRUE, value |-> 0]
         ELSE [panicked |-> FALSE, value |-> (x.value + b) % (U64_MAX + 1)]
    ELSE [panicked |-> FALSE, value |-> x.value + b]

stellar_ttl_seconds(current_ledger, expiration_ledger, overflow_checks) ==
    LET ledgers_until_expiry == saturating_sub(expiration_ledger, current_ledger)
        seconds_until_expiry == u64_mul(ledgers_until_expiry, 5, overflow_checks)
    IN  u64_add(seconds_until_expiry, 3600, overflow_checks)

algorand_ttl_seconds(current_round, last_valid_round, overflow_checks) ==
    LET rounds_until_expiry == saturating_sub(last_valid_round, current_round)
        seconds_until_expiry == u64_mul(rounds_until_expiry, 4, overflow_checks)
    IN  u64_add(seconds_until_expiry, 3600, overflow_checks)

\* The ledgers and rounds the helpers are applied to: the values of the
\* unit tests, the ends of the range and the neighbourhood of the largest
\* difference whose TTL still fits a u64.
LedgerInputs == {0, 1, 1000, 1100, U32_MAX}

RoundInputs ==
    {0, 1, 1000, 1100, 2^(U64Bits - 2) - 901, 2^(U64Bits - 2) - 900,
     2^(U64Bits - 2), U64_MAX}

\* No function has been applied yet; each behaviour applies one function
\* to one input of its family.
NotApplied == [fn |-> "none", args |-> << >>, result |-> << >>]

PureInit == applied = NotApplied

StellarTtl ==
    /\ applied.fn = "none"
    /\ \E current_ledger \in LedgerInputs, expiration_ledger \in LedgerInputs,
          overflow_checks \in BOOLEAN :
            applied' =
                [fn |-> "stellar_ttl_seconds",
                 args |-> [current |-> current_ledger,
                           expiration |-> expiration_ledger,
                           overflow_checks |-> overflow_checks],
                 result |-> stellar_ttl_seconds(current_ledger,
                                expiration_ledger, overflow_checks)]
    /\ UNCHANGED <<nonceVars, algorandVars, aggregatorVars>>

AlgorandTtl ==
    /\ applied.fn = "none"
    /\ \E current_round \in RoundInputs, last_valid_round \in RoundInputs,
          overflow_checks \in BOOLEAN :
            applied' =
                [fn |-> "algorand_ttl_seconds",
                 args |-> [current |-> current_round,
                           expiration |-> last_valid_round,
                           overflow_checks |-> overflow_checks],
                 result |-> algorand_ttl_seconds(current_round,
                                last_valid_round, overflow_checks)]
    /\ UNCHANGED <<nonceVars, algorandVars, aggregatorVars>>

\* =========================================================================
\*                  DISCOVERY AGGREGATOR: CONVERSION
\* =========================================================================
\* Text is a sequence of characters, so that the conversions below read it
\* as the code does.  Numbers that the code holds in a u64 or a U256 are
\* kept as their decimal text without sign and leading zeros.
UpperCase ==
    <<"A", "B", "C", "D", "E", "F", "G", "H", "I", "J", "K", "L", "M",
      "N", "O", "P", "Q", "R", "S", "T", "U", "V", "W", "X", "Y", "Z">>

LowerCase ==
    <<"a", "b", "c", "d", "e", "f", "g", "h", "i", "j", "k", "l", "m",
      "n", "o", "p", "q", "r", "s", "t", "u", "v", "w", "x", "y", "z">>

DecimalDigits == <<"0", "1", "2", "3", "4", "5", "6", "7", "8", "9">>

\* str::to_lowercase on ASCII text.
to_lowercase(s) ==
    [i \in DOMAIN s |->
        IF \E k \in DOMAIN UpperCase : UpperCase[k] = s[i]
        THEN LowerCase[CHOOSE k \in DOMAIN UpperCase : UpperCase[k] = s[i]]
        ELSE s[i]]

\* str::starts_with.
starts_with(s, prefix) ==
    /\ Len(s) >= Len(prefix)
    /\ SubSeq(s, 1, Len(prefix)) = prefix

digit_value(c) == (CHOOSE k \in DOMAIN DecimalDigits : DecimalDigits[k] = c) - 1

\* A decimal text without its leading zeros ("0" for zero).
RECURSIVE strip_leading_zeros(_)
strip_leading_zeros(d) ==
    IF Len(d) > 1 /\ d[1] = "0" THEN strip_leading_zeros(Tail(d)) ELSE d

\* a <= b for two decimal texts without leading zeros.
RECURSIVE decimal_le(_, _)
decimal_le(a, b) ==
    IF Len(a) # Len(b) THEN Len(a) < Len(b)
    ELSE IF a = << >> THEN TRUE
    ELSE IF a[1] # b[1] THEN digit_value(a[1]) < digit_value(b[1])
    ELSE decimal_le(Tail(a), Tail(b))

\* u64::MAX, 18446744073709551615.
U64_MAX_DECIMAL == <<"1", "8", "4", "4", "6", "7", "4", "4", "0", "7", "3", "7", "0", "9", "5", "5", "1", "6", "1", "5">>

\* str::parse::<u64>: an optional '+', then one or more decimal digits whose
\* value fits a u64.  None stands for Err.
parse_u64(s) ==
    LET digits == IF s # << >> /\ s[1] = "+" THEN Tail(s) ELSE s
        value == strip_leading_zeros(digits)
    IN  IF /\ digits # << >>
           /\ \A i \in DOMAIN digits :
                \E k \in DOMAIN DecimalDigits : DecimalDigits[k] = digits[i]
           /\ decimal_le(value, U64_MAX_DECIMAL)
        THEN Some(value)
        ELSE None

EIP155 == <<"e", "i", "p", "1", "5", "5">>

\* Caip2NetworkId::eip155(chain_id) and its Display, `namespace:reference`.
Caip2NetworkId_eip155(chain_id) == [namespace |-> EIP155, reference |-> chain_id]

Caip2NetworkId_to_string(id) == id.namespace \o <<":">> \o id.reference

\* Caip2NetworkId::parse: the text is split at its first ':' into a
\* namespace and a reference, neither of them empty.
Caip2NetworkId_parse(s) ==
    IF \E i \in DOMAIN s : s[i] = ":"
    THEN LET colon == CHOOSE i \in DOMAIN s :
                        s[i] = ":" /\ \A j \in 1..(i - 1) : s[j] # ":"
             namespace == SubSeq(s, 1, colon - 1)
             reference == SubSeq(s, colon + 1, Len(s))
         IN  IF namespace # << >> /\ reference # << >>
             THEN Some([namespace |-> namespace, reference |-> reference])
             ELSE None
    ELSE None

\* The arms of the match in parse_network_to_caip2: <<name, chain id>>.
NetworkNames ==
    {
      <<<<"b", "a", "s", "e">>, <<"8", "4", "5", "3">>>>,
      <<<<"b", "a", "s", "e", "-", "m", "a", "i", "n", "n", "e", "t">>, <<"8", "4", "5", "3">>>>,
      <<<<"b", "a", "s", "e", "-", "s", "e", "p", "o", "l", "i", "a">>, <<"8", "4", "5", "3", "2">>>>,
      <<<<"e", "t", "h", "e", "r", "e", "u", "m">>, <<"1">>>>,
      <<<<"m", "a", "i", "n", "n", "e", "t">>, <<"1">>>>,
      <<<<"e", "t", "h", "e", "r", "e", "u", "m", "-", "m", "a", "i", "n", "n", "e", "t">>, <<"1">>>>,
      <<<<"s", "e", "p", "o", "l", "i", "a">>, <<"1", "1", "1", "5", "5", "1", "1", "1">>>>,
      <<<<"e", "t", "h", "e", "r", "e", "u", "m", "-", "s", "e", "p", "o", "l", "i", "a">>, <<"1", "1", "1", "5", "5", "1", "1", "1">>>>,
      <<<<"p", "o", "l", "y", "g", "o", "n">>, <<"1", "3", "7">>>>,
      <<<<"p", "o", "l", "y", "g", "o", "n", "-", "m", "a", "i", "n", "n", "e", "t">>, <<"1", "3", "7">>>>,
      <<<<"m", "a", "t", "i", "c">>, <<"1", "3", "7">>>>,
      <<<<"p", "o", "l", "y", "g", "o", "n", "-", "a", "m", "o", "y">>, <<"8", "0", "0", "0", "2">>>>,
      <<<<"a", "m", "o", "y">>, <<"8", "0", "0", "0", "2">>>>,
      <<<<"o", "p", "t", "i", "m", "i", "s", "m">>, <<"1", "0">>>>,
      <<<<"o", "p", "t", "i", "m", "i", "s", "m", "-", "m", "a", "i", "n", "n", "e", "t">>, <<"1", "0">>>>,
      <<<<"o", "p", "t", "i", "m", "i", "s", "m", "-", "s", "e", "p", "o", "l", "i", "a">>, <<"1", "1", "1", "5", "5", "4", "2", "0">>>>,
      <<<<"a", "r", "b", "i", "t", "r", "u", "m">>, <<"4", "2", "1", "6", "1">>>>,
      <<<<"a", "r", "b", "i", "t", "r", "u", "m", "-", "m", "a", "i", "n", "n", "e", "t">>, <<"4", "2", "1", "6", "1">>>>,
      <<<<"a", "r", "b", "i", "t", "r", "u", "m", "-", "o", "n", "e">>, <<"4", "2", "1", "6", "1">>>>,
      <<<<"a", "r", "b", "i", "t", "r", "u", "m", "-", "s", "e", "p", "o", "l", "i", "a">>, <<"4", "2", "1", "6", "1", "4">>>>,
      <<<<"a", "v", "a", "l", "a", "n", "c", "h", "e">>, <<"4", "3", "1", "1", "4">>>>,
      <<<<"a", "v", "a", "l", "a", "n", "c", "h", "e", "-", "m", "a", "i", "n", "n", "e", "t">>, <<"4", "3", "1", "1", "4">>>>,
      <<<<"a", "v", "a", "l", "a", "n", "c", "h", "e", "-", "c", "-", "c", "h", "a", "i", "n">>, <<"4", "3", "1", "1", "4">>>>,
      <<<<"a", "v", "a", "l", "a", "n", "c", "h", "e", "-", "f", "u", "j", "i">>, <<"4", "3", "1", "1", "3">>>>,
      <<<<"f", "u", "j", "i">>, <<"4", "3", "1", "1", "3">>>>,
      <<<<"c", "e", "l", "o">>, <<"4", "2", "2", "2", "0">>>>,
      <<<<"c", "e", "l", "o", "-", "m", "a", "i", "n", "n", "e", "t">>, <<"4", "2", "2", "2", "0">>>>,
      <<<<"c", "e", "l", "o", "-", "a", "l", "f", "a", "j", "o", "r", "e", "s">>, <<"4", "4", "7", "8", "7">>>>,
      <<<<"a", "l", "f", "a", "j", "o", "r", "e", "s">>, <<"4", "4", "7", "8", "7">>>>
    }

\* Faulty variant of parse_network_to_caip2: the name is matched as given.
parse_network_to_caip2_case_sensitive(network) ==
    IF \E row \in NetworkNames : row[1] = network
    THEN Some(Caip2NetworkId_eip155(
             (CHOOSE row \in NetworkNames : row[1] = network)[2]))
    ELSE IF starts_with(network, EIP155 \o <<":">>)
    THEN Caip2NetworkId_parse(network)
    ELSE IF is_some(parse_u64(network))
    THEN Some(Caip2NetworkId_eip155(The(parse_u64(network))))
    ELSE None

parse_network_to_caip2(network) ==
    LET lower == to_lowercase(network)
    IN  IF \E row \in NetworkNames : row[1] = lower
        THEN Some(Caip2NetworkId_eip155(
                 (CHOOSE row \in NetworkNames : row[1] = lower)[2]))
        ELSE IF starts_with(network, EIP155 \o <<":">>)
        THEN Caip2NetworkId_parse(network)
        ELSE IF is_some(parse_u64(network))
        THEN Some(Caip2NetworkId_eip155(The(parse_u64(network))))
        ELSE None

\* The network texts parse_network_to_caip2 is applied to: every name of
\* its table, names in other letter case, CAIP-2 texts, numbers at and
\* beyond the end of u64, and texts that are none of these.
SampleNetworks ==
    { row[1] : row \in NetworkNames } \cup
    {
      <<"B", "A", "S", "E">>,
      <<"B", "a", "s", "e", "-", "M", "a", "i", "n", "n", "e", "t">>,
      <<"P", "o", "l", "y", "g", "o", "n", "-", "A", "m", "o", "y">>,
      <<"e", "i", "p", "1", "5", "5", ":", "8", "4", "5", "3">>,
      <<"e", "i", "p", "1", "5", "5", ":", "1">>,
      <<"e", "i", "p", "1", "5", "5", ":", "8", "0", "0", "0", "2">>,
      <<"E", "I", "P", "1", "5", "5", ":", "1">>,
      <<"e", "i", "p", "1", "5", "5", ":", "a", "b", "c">>,
      <<"e", "i", "p", "1", "5", "5", ":">>,
      <<"8", "4", "5", "3">>,
      <<"1">>,
      <<"0">>,
      <<"0", "0", "7">>,
      <<"+", "5">>,
      <<"-", "5">>,
      <<"1", ".", "5">>,
      <<"1", "8", "4", "4", "6", "7", "4", "4", "0", "7", "3", "7", "0", "9", "5", "5", "1", "6", "1", "5">>,
      <<"1", "8", "4", "4", "6", "7", "4", "4", "0", "7", "3", "7", "0", "9", "5", "5", "1", "6", "1", "6">>,
      <<"n", "o", "t", "-", "a", "-", "c", "h", "a", "i", "n">>,
      << >>,
      <<"s", "o", "l", "a", "n", "a">>,
      <<"b", "a", "s", "e", " ", "m", "a", "i", "n", "n", "e", "t">>
    }

ParseNetworkToCaip2 ==
    /\ applied.fn = "none"
    /\ \E network \in SampleNetworks :
            applied' = [fn |-> "parse_network_to_caip2", args |-> network,
                        result |-> parse_network_to_caip2(network)]
    /\ UNCHANGED <<nonceVars, algorandVars, aggregatorVars>>

HexDigits ==
    {"0", "1", "2", "3", "4", "5", "6", "7", "8", "9",
     "a", "b", "c", "d", "e", "f", "A", "B", "C", "D", "E", "F"}

\* EvmAddress::from_str on a text of 42 characters that starts with "0x":
\* the 40 characters after the prefix are the hexadecimal digits of the
\* 20 bytes, in either case.
EvmAddress_from_str(addr) ==
    IF \A i \in 3..Len(addr) : addr[i] \in HexDigits
    THEN Some(to_lowercase(SubSeq(addr, 3, Len(addr))))
    ELSE None

parse_address(addr) ==
    IF starts_with(addr, <<"0", "x">>) /\ Len(addr) = 42
    THEN IF is_some(EvmAddress_from_str(addr))
         THEN Some([variant |-> "Evm", bytes |-> The(EvmAddress_from_str(addr))])
         ELSE None
    ELSE None

\* U256::from_str(amount).unwrap_or(0) on decimal text; the digits of the
\* amount, "0" when the text is no decimal number.
parse_amount(amount_str) ==
    IF /\ amount_str # << >>
       /\ \A i \in DOMAIN amount_str :
            \E k \in DOMAIN DecimalDigits : DecimalDigits[k] = amount_str[i]
    THEN strip_leading_zeros(amount_str)
    ELSE <<"0">>

\* Option<PaymentRequirementsV2>.
convert_payment_requirement(req) ==
    IF ~is_some(req.network) THEN None
    ELSE IF ~is_some(parse_network_to_caip2(The(req.network))) THEN None
    ELSE IF ~is_some(req.asset) THEN None
    ELSE IF ~is_some(parse_address(The(req.asset))) THEN None
    ELSE IF ~is_some(req.pay_to) THEN None
    ELSE IF ~is_some(parse_address(The(req.pay_to))) THEN None
    ELSE Some([scheme |-> "exact",
               network |-> The(parse_network_to_caip2(The(req.network))),
               asset |-> The(parse_address(The(req.asset))),
               amount |-> parse_amount(IF is_some(req.amount)
                                       THEN The(req.amount) ELSE <<"0">>),
               pay_to |-> The(parse_address(The(req.pay_to))),
               max_timeout_seconds |->
                   IF is_some(req.max_timeout_seconds)
                   THEN The(req.max_timeout_seconds) ELSE 300,
               extra |-> None])

\* cb.accepts.into_iter().filter_map(convert_payment_requirement).collect()
convert_accepts(accepts) ==
    LET converted == [i \in DOMAIN accepts |-> convert_payment_requirement(accepts[i])]
        kept == SelectSeq(converted, is_some)
    IN  [i \in DOMAIN kept |-> The(kept[i])]

\* Faulty variant of convert_single_resource: a resource one of whose
\* requirements does not convert is not emitted.
convert_single_resource_all_or_nothing(cb, facilitator_id, now) ==
    IF ~cb.url.parses \/ Len(convert_accepts(cb.accepts)) # Len(cb.accepts)
    THEN Err("InvalidUrl")
    ELSE Ok([url |-> cb.url.text,
             resource_type |-> IF is_some(cb.resource_type)
                               THEN The(cb.resource_type) ELSE "http",
             description |-> IF is_some(cb.description)
                             THEN The(cb.description) ELSE << >>,
             accepts |-> convert_accepts(cb.accepts),
             metadata |-> cb.metadata,
             source |-> <<"aggregation", facilitator_id>>,
             last_updated |-> IF is_some(cb.last_updated)
                              THEN The(cb.last_updated) ELSE now])

\* cb.url is [text, parses]: the text and whether Url::parse accepts it.
\* `now` is SystemTime::now() as Unix seconds.
convert_single_resource(cb, facilitator_id, now) ==
    IF ~cb.url.parses THEN Err("InvalidUrl")
    ELSE Ok([url |-> cb.url.text,
             resource_type |-> IF is_some(cb.resource_type)
                               THEN The(cb.resource_type) ELSE "http",
             description |-> IF is_some(cb.description)
                             THEN The(cb.description) ELSE << >>,
             accepts |-> convert_accepts(cb.accepts),
             metadata |-> cb.metadata,
             source |-> <<"aggregation", facilitator_id>>,
             last_updated |-> IF is_some(cb.last_updated)
                              THEN The(cb.last_updated) ELSE now])

\* The resources that convert, in their order; the others are skipped.
convert_coinbase_resources(resources, facilitator_id, now) ==
    LET results == [i \in DOMAIN resources |->
                        convert_single_resource(resources[i], facilitator_id, now)]
        converted == SelectSeq(results, LAMBDA r : r.ok)
    IN  [i \in DOMAIN converted |-> converted[i].value]

\* The address texts of the sample requirements: two EVM addresses (the
\* first in mixed case), 42 characters that are not hexadecimal, a text
\* that is too short and a Solana address.
SampleAddresses ==
    [usdc |->
        <<"0", "x", "8", "3", "3", "5", "8", "9", "f", "C", "D", "6", "e",
          "D", "b", "6", "E", "0", "8", "f", "4", "c", "7", "C", "3", "2",
          "D", "4", "f", "7", "1", "b", "5", "4", "b", "d", "A", "0", "2",
          "9", "1", "3">>,
     payee |->
        <<"0", "x", "a", "b", "1", "2", "a", "b", "1", "2", "a", "b", "1",
          "2", "a", "b", "1", "2", "a", "b", "1", "2", "a", "b", "1", "2",
          "a", "b", "1", "2", "a", "b", "1", "2", "a", "b", "1", "2", "a",
          "b", "1", "2">>,
     not_hex |->
        <<"0", "x", "z", "z", "1", "2", "z", "z", "1", "2", "z", "z", "1",
          "2", "z", "z", "1", "2", "z", "z", "1", "2", "z", "z", "1", "2",
          "z", "z", "1", "2", "z", "z", "1", "2", "z", "z", "1", "2", "z",
          "z", "1", "2">>,
     short |-> <<"0", "x", "1", "2", "3">>,
     solana |->
        <<"E", "P", "j", "F", "W", "d", "d", "5", "A", "u", "f", "q", "S",
          "S", "q", "e", "M", "2", "q", "N", "1", "x", "z", "y", "b", "a",
          "p", "C", "8", "G", "4", "w", "E", "G", "G", "k", "Z", "w", "y",
          "T", "D", "t", "1", "v">>]

\* CoinbasePaymentRequirement: two that convert and one for each way in
\* which one does not.
SampleRequirement(network, asset, pay_to) ==
    [scheme |-> Some("exact"), network |-> network, asset |-> asset,
     amount |-> Some(<<"1", "0", "0", "0", "0", "0", "0">>), pay_to |-> pay_to,
     max_timeout_seconds |-> None]

SampleRequirements ==
    { SampleRequirement(Some(<<"b", "a", "s", "e">>), Some(SampleAddresses.usdc),
                        Some(SampleAddresses.payee)),
      SampleRequirement(Some(<<"1", "3", "7">>), Some(SampleAddresses.payee),
                        Some(SampleAddresses.usdc)),
      SampleRequirement(Some(<<"n", "o", "t", "-", "a", "-", "c", "h", "a", "i", "n">>), Some(SampleAddresses.usdc),
                        Some(SampleAddresses.payee)),
      SampleRequirement(None, Some(SampleAddresses.usdc), Some(SampleAddresses.payee)),
      SampleRequirement(Some(<<"b", "a", "s", "e">>), Some(SampleAddresses.solana),
                        Some(SampleAddresses.payee)),
      SampleRequirement(Some(<<"b", "a", "s", "e">>), Some(SampleAddresses.not_hex),
                        Some(SampleAddresses.payee)),
      SampleRequirement(Some(<<"b", "a", "s", "e">>), Some(SampleAddresses.usdc),
                        Some(SampleAddresses.short)),
      SampleRequirement(Some(<<"b", "a", "s", "e">>), Some(SampleAddresses.usdc), None) }

\* The resources convert_single_resource is applied to: every list of at
\* most MaxAccepts of the sample requirements, under a URL that parses and
\* under one that does not.
MaxAccepts == 3

SampleAccepts ==
    UNION { [1..n -> SampleRequirements] : n \in 0..MaxAccepts }

ConvertSingleResource ==
    /\ applied.fn = "none"
    /\ \E accepts \in SampleAccepts, parses \in BOOLEAN :
        LET cb == [url |-> [text |-> <<"resource", 1>>, parses |-> parses],
                   resource_type |-> None, description |-> None,
                   accepts |-> accepts, last_updated |-> None, metadata |-> None]
        IN  applied' = [fn |-> "convert_single_resource", args |-> cb,
                        result |-> convert_single_resource(cb, "p1", clock)]
    /\ UNCHANGED <<nonceVars, algorandVars, aggregatorVars>>

\* ----------------------------------------------------- response bodies
\* A JSON value: null, a string, an array, an object (members : key ->
\* value), and the two objects the decoders below read as a whole: a
\* resource (value : the CoinbaseResource it deserializes to) and a
\* pagination block (value : the CoinbasePagination).
JNull == [type |-> "null"]

JString == [type |-> "string"]

JArray(elems) == [type |-> "array", elems |-> elems]

JObject(members) == [type |-> "object", members |-> members]

JResource(cb) == [type |-> "resource", value |-> cb]

JPagination(p) == [type |-> "pagination", value |-> p]

\* A body is its JSON value and whether byte min(500, len) of its text is
\* a character boundary (it is one in every text of ASCII characters and in
\* every text of at most 500 bytes).
Body(json, preview_on_char_boundary) ==
    [json |-> json, preview_on_char_boundary |-> preview_on_char_boundary]

\* Vec<CoinbaseResource>
from_json_resources(json) ==
    IF json.type = "array" /\ \A i \in DOMAIN json.elems : json.elems[i].type = "resource"
    THEN Ok([i \in DOMAIN json.elems |-> json.elems[i].value])
    ELSE Err("serde")

\* The member `pagination: Option<CoinbasePagination>` of an object.
from_json_pagination(members) ==
    IF "pagination" \notin DOMAIN members THEN Ok(None)
    ELSE IF members["pagination"].type = "null" THEN Ok(None)
    ELSE IF members["pagination"].type = "pagination"
    THEN Ok(Some(members["pagination"].value))
    ELSE Err("serde")

\* CoinbaseDiscoveryResponse { items, pagination }
from_json_CoinbaseDiscoveryResponse(json) ==
    IF /\ json.type = "object"
       /\ "items" \in DOMAIN json.members
       /\ from_json_resources(json.members["items"]).ok
       /\ from_json_pagination(json.members).ok
    THEN Ok([items |-> from_json_resources(json.members["items"]).value,
             pagination |-> from_json_pagination(json.members).value])
    ELSE Err("serde")

\* WrappedDiscoveryResponse { data: CoinbaseDiscoveryResponse }
from_json_WrappedDiscoveryResponse(json) ==
    IF /\ json.type = "object"
       /\ "data" \in DOMAIN json.members
       /\ from_json_CoinbaseDiscoveryResponse(json.members["data"]).ok
    THEN Ok([data |-> from_json_CoinbaseDiscoveryResponse(json.members["data"]).value])
    ELSE Err("serde")

\* AlternativeDiscoveryResponse { resources (alias items), pagination }:
\* the member may carry either name; both at once is a duplicate field.
from_json_AlternativeDiscoveryResponse(json) ==
    IF /\ json.type = "object"
       /\ ("resources" \in DOMAIN json.members) # ("items" \in DOMAIN json.members)
       /\ from_json_resources(
              IF "resources" \in DOMAIN json.members
              THEN json.members["resources"] ELSE json.members["items"]).ok
       /\ from_json_pagination(json.members).ok
    THEN Ok([resources |-> from_json_resources(
                               IF "resources" \in DOMAIN json.members
                               THEN json.members["resources"]
                               ELSE json.members["items"]).value,
             pagination |-> from_json_pagination(json.members).value])
    ELSE Err("serde")

\* A call that does not return: the thread unwinds.
Panic == Err("panic")

\* Ok(<<items, pagination>>), Err("ParseError"), or a panic of the slice
\* `&body[..500.min(body.len())]` that builds the error's preview.
parse_discovery_response(body) ==
    IF from_json_CoinbaseDiscoveryResponse(body.json).ok
    THEN LET parsed == from_json_CoinbaseDiscoveryResponse(body.json).value
         IN  Ok(<<parsed.items, parsed.pagination>>)
    ELSE IF from_json_WrappedDiscoveryResponse(body.json).ok
    THEN LET parsed == from_json_WrappedDiscoveryResponse(body.json).value
         IN  Ok(<<parsed.data.items, parsed.data.pagination>>)
    ELSE IF from_json_AlternativeDiscoveryResponse(body.json).ok
    THEN LET parsed == from_json_AlternativeDiscoveryResponse(body.json).value
         IN  Ok(<<parsed.resources, parsed.pagination>>)
    ELSE IF from_json_resources(body.json).ok
    THEN Ok(<<from_json_resources(body.json).value, None>>)
    ELSE IF body.preview_on_char_boundary THEN Err("ParseError")
    ELSE Panic

\* A resource as a peer serves it, named n.
SampleResource(n) ==
    [url |-> [text |-> <<"resource", n>>, parses |-> TRUE],
     resource_type |-> None, description |-> None, accepts |-> << >>,
     last_updated |-> None, metadata |-> None]

\* The member `key` of an object, left out when value is Absent.
Absent == [type |-> "absent"]

Member(key, value) == IF value = Absent THEN << >> ELSE key :> value

\* The bodies parse_discovery_response is applied to: objects with any of
\* the members items, resources, pagination and data, well-formed or not,
\* arrays, and documents that are neither; each with a preview that can be
\* cut and with one that cannot.
SampleBodies ==
    LET list(n) == JArray(<<JResource(SampleResource(n))>>)
        page == JPagination([limit |-> None, offset |-> Some(0), total |-> Some(150)])
        objects ==
            { JObject(Member("items", i) @@ Member("resources", r)
                        @@ Member("pagination", p) @@ Member("data", d)) :
                i \in {Absent, list(1), JString},
                r \in {Absent, list(2), JString},
                p \in {Absent, JNull, page, JString},
                d \in {Absent, JString,
                       JObject([items |-> list(3), pagination |-> page]),
                       JObject([resources |-> list(3)])} }
        others ==
            { JArray(<< >>), list(4), JArray(<<JResource(SampleResource(4)), JString>>),
              JString, JNull }
    IN  { Body(json, b) : json \in objects \cup others, b \in BOOLEAN }

ParseDiscoveryResponse ==
    /\ applied.fn = "none"
    /\ \E body \in SampleBodies :
            applied' = [fn |-> "parse_discovery_response", args |-> body,
                        result |-> parse_discovery_response(body)]
    /\ UNCHANGED <<nonceVars, algorandVars, aggregatorVars>>

\* =========================================================================
\*                    DISCOVERY AGGREGATOR: THE CYCLE
\* =========================================================================
\* `let limit = 100;` in fetch_from_facilitator.
limit == 100

\* The background task runs at most MaxCycles cycles.
MaxCycles == 2

\* The interval_secs the task is started with.
IntervalSecs == 2

\* FacilitatorConfig, reduced to the fields the cycle reads.
FacilitatorIds == <<"p1", "p2">>

FacilitatorLists ==
    { [i \in DOMAIN FacilitatorIds |-> [id |-> FacilitatorIds[i], enabled |-> e[i]]] :
        e \in [DOMAIN FacilitatorIds -> BOOLEAN] }

\* What a peer may answer to one GET: the request fails in transit
\* (send_error: connection, timeout, or the body cannot be read), the
\* status is not 2xx, the body is no JSON document (garbage), or the body is
\* a page of `len` resources of which the first `bad` carry a URL that
\* does not parse, with the total it reports.  Every page of the second
\* peer starts with one such resource, the pages of the first have none.
PageSizes == {0, 50, limit}

ReportedTotals == {None, Some(150), Some(250)}

BadUrls(id, len) == IF id = FacilitatorIds[2] /\ len > 0 THEN 1 ELSE 0

Replies(id) ==
    { [kind |-> k, len |-> 0, bad |-> 0, total |-> None, on_boundary |-> TRUE] :
        k \in {"send_error", "status_error"} }
    \cup { [kind |-> "garbage", len |-> 0, bad |-> 0, total |-> None, on_boundary |-> b] :
        b \in BOOLEAN }
    \cup { [kind |-> "page", len |-> n, bad |-> BadUrls(id, n), total |-> t,
            on_boundary |-> TRUE] :
        n \in PageSizes, t \in ReportedTotals }

\* The resources of a page: the one at place i of the page requested at
\* `offset` is named <<id, offset + i - 1>>.
PageItems(id, offset, reply) ==
    [i \in 1..reply.len |->
        [url |-> [text |-> <<id, offset + i - 1>>, parses |-> i > reply.bad],
         resource_type |-> None, description |-> None, accepts |-> << >>,
         last_updated |-> None, metadata |-> None]]

\* The body of a reply that carries one.
ReplyBody(id, offset, reply) ==
    IF reply.kind = "page"
    THEN LET items == JArray([i \in 1..reply.len |->
                                JResource(PageItems(id, offset, reply)[i])])
             pagination ==
                 JPagination([limit |-> None, offset |-> None, total |-> reply.total])
         IN  Body(JObject(IF is_some(reply.total)
                          THEN [items |-> items, pagination |-> pagination]
                          ELSE [items |-> items]), TRUE)
    ELSE Body(JString, reply.on_boundary)

\* Faulty variant of fetch_page: the reported total is not looked at, a
\* full batch always asks for another page.
fetch_page_ignores_total(id, offset, all_resources, reply, now) ==
    IF reply.kind = "send_error"
    THEN [next |-> "HttpError", offset |-> offset, all_resources |-> all_resources]
    ELSE IF reply.kind = "status_error"
    THEN [next |-> "FacilitatorError", offset |-> offset, all_resources |-> all_resources]
    ELSE LET parsed == parse_discovery_response(ReplyBody(id, offset, reply))
         IN  IF ~parsed.ok
             THEN [next |-> parsed.error, offset |-> offset, all_resources |-> all_resources]
             ELSE LET items == parsed.value[1]
                      batch_count == Len(items)
                      resources == convert_coinbase_resources(items, id, now)
                  IN  [next |-> IF batch_count < limit THEN "break" ELSE "continue",
                       offset |-> offset + batch_count,
                       all_resources |-> all_resources \o resources]

\* Faulty variant of fetch_page: the offset advances by the number of
\* resources that converted.
fetch_page_counts_converted(id, offset, all_resources, reply, now) ==
    IF reply.kind = "send_error"
    THEN [next |-> "HttpError", offset |-> offset, all_resources |-> all_resources]
    ELSE IF reply.kind = "status_error"
    THEN [next |-> "FacilitatorError", offset |-> offset, all_resources |-> all_resources]
    ELSE LET parsed == parse_discovery_response(ReplyBody(id, offset, reply))
         IN  IF ~parsed.ok
             THEN [next |-> parsed.error, offset |-> offset, all_resources |-> all_resources]
             ELSE LET items == parsed.value[1]
                      pagination == parsed.value[2]
                      resources == convert_coinbase_resources(items, id, now)
                      total == IF is_some(pagination) /\ is_some(The(pagination).total)
                               THEN The(The(pagination).total) ELSE 0
                      batch_count == Len(resources)
                  IN  [next |-> IF batch_count < limit \/ offset + batch_count >= total
                                THEN "break" ELSE "continue",
                       offset |-> offset + batch_count,
                       all_resources |-> all_resources \o resources]

\* One turn of the loop of fetch_from_facilitator, from the reply to its
\* GET to the decision to ask for another page (continue), to return the
\* resources (break), to return an error or to panic.
fetch_page(id, offset, all_resources, reply, now) ==
    IF reply.kind = "send_error"
    THEN [next |-> "HttpError", offset |-> offset, all_resources |-> all_resources]
    ELSE IF reply.kind = "status_error"
    THEN [next |-> "FacilitatorError", offset |-> offset, all_resources |-> all_resources]
    ELSE LET parsed == parse_discovery_response(ReplyBody(id, offset, reply))
         IN  IF ~parsed.ok
             THEN [next |-> parsed.error, offset |-> offset, all_resources |-> all_resources]
             ELSE LET items == parsed.value[1]
                      pagination == parsed.value[2]
                      batch_count == Len(items)
                      resources == convert_coinbase_resources(items, id, now)
                      total == IF is_some(pagination) /\ is_some(The(pagination).total)
                               THEN The(The(pagination).total) ELSE 0
                  IN  [next |-> IF batch_count < limit \/ offset + batch_count >= total
                                THEN "break" ELSE "continue",
                       offset |-> offset + batch_count,
                       all_resources |-> all_resources \o resources]

\* The task as start_aggregation_task spawns it.
SpawnedTask(interval_secs) ==
    [pc |-> "spawned", interval_secs |-> interval_secs, cycle |-> 0,
     index |-> 1, offset |-> 0, peer_resources |-> << >>,
     all_resources |-> << >>, slept |-> 0]

AggregatorInit ==
    /\ facilitators \in FacilitatorLists
    /\ aggregation = SpawnedTask(IntervalSecs)
    /\ http_log = << >>
    /\ import_log = << >>

\* run_aggregation is entered: fetch_all starts with the first config.
BeginCycle ==
    /\ http_log' = << >>
    /\ import_log' = << >>
    /\ aggregation' = [aggregation EXCEPT !.pc = "fetch_all", !.cycle = @ + 1,
                          !.index = 1, !.offset = 0, !.peer_resources = << >>,
                          !.all_resources = << >>, !.slept = 0]
    /\ UNCHANGED <<facilitators, nonceVars, algorandVars, pureVars>>

\* The task starts: the first run_aggregation, before the loop.
FirstCycle ==
    /\ aggregation.pc = "spawned"
    /\ BeginCycle

\* The head of the `for config in &self.facilitators` loop of fetch_all.
NextFacilitator ==
    /\ aggregation.pc = "fetch_all"
    /\ aggregation' =
        IF aggregation.index > Len(facilitators)
        THEN [aggregation EXCEPT !.pc = "fetched"]
        ELSE IF ~facilitators[aggregation.index].enabled
        THEN [aggregation EXCEPT !.index = @ + 1]
        ELSE [aggregation EXCEPT !.pc = "fetch_from_facilitator",
                                 !.offset = 0, !.peer_resources = << >>]
    /\ UNCHANGED <<facilitators, http_log, import_log, nonceVars, algorandVars, pureVars>>

\* Faulty variant of Get: when a page request fails, the resources of the
\* peer's earlier pages are kept.
Get_keeps_pages ==
    /\ aggregation.pc = "fetch_from_facilitator"
    /\ \E reply \in Replies(facilitators[aggregation.index].id) :
        LET id == facilitators[aggregation.index].id
            step == fetch_page(id, aggregation.offset,
                               aggregation.peer_resources, reply, clock)
        IN  /\ http_log' = Append(http_log,
                    [id |-> id, offset |-> aggregation.offset, reply |-> reply])
            /\ aggregation' =
                IF step.next = "continue"
                THEN [aggregation EXCEPT !.offset = step.offset,
                                         !.peer_resources = step.all_resources]
                ELSE IF step.next = "break"
                THEN [aggregation EXCEPT !.pc = "fetch_all", !.index = @ + 1,
                          !.peer_resources = << >>,
                          !.all_resources = @ \o step.all_resources]
                ELSE IF step.next = "panic"
                THEN [aggregation EXCEPT !.pc = "panicked"]
                ELSE [aggregation EXCEPT !.pc = "fetch_all", !.index = @ + 1,
                          !.peer_resources = << >>,
                          !.all_resources = @ \o aggregation.peer_resources]
    /\ UNCHANGED <<facilitators, import_log, nonceVars, algorandVars, pureVars>>

\* One GET of fetch_from_facilitator and what follows its reply, up to the
\* next GET or to the next config of fetch_all.
Get ==
    /\ aggregation.pc = "fetch_from_facilitator"
    /\ \E reply \in Replies(facilitators[aggregation.index].id) :
        LET id == facilitators[aggregation.index].id
            step == fetch_page(id, aggregation.offset,
                               aggregation.peer_resources, reply, clock)
        IN  /\ http_log' = Append(http_log,
                    [id |-> id, offset |-> aggregation.offset, reply |-> reply])
            /\ aggregation' =
                IF step.next = "continue"
                THEN [aggregation EXCEPT !.offset = step.offset,
                                         !.peer_resources = step.all_resources]
                ELSE IF step.next = "break"
                THEN [aggregation EXCEPT !.pc = "fetch_all", !.index = @ + 1,
                          !.peer_resources = << >>,
                          !.all_resources = @ \o step.all_resources]
                ELSE IF step.next = "panic"
                THEN [aggregation EXCEPT !.pc = "panicked"]
                ELSE [aggregation EXCEPT !.pc = "fetch_all", !.index = @ + 1,
                          !.peer_resources = << >>]
    /\ UNCHANGED <<facilitators, import_log, nonceVars, algorandVars, pureVars>>

\* Faulty variant of CallBulkImport: the registry is called with whatever
\* was fetched, nothing included.
CallBulkImport_even_if_empty ==
    /\ aggregation.pc = "fetched"
    /\ aggregation' = [aggregation EXCEPT !.pc = "bulk_import"]
    /\ import_log' = Append(import_log,
           [resources |-> aggregation.all_resources, merge |-> TRUE])
    /\ UNCHANGED <<facilitators, http_log, nonceVars, algorandVars, pureVars>>

\* run_aggregation after fetch_all: nothing fetched, it returns; else it
\* calls registry.bulk_import(resources, true).
CallBulkImport ==
    /\ aggregation.pc = "fetched"
    /\ IF aggregation.all_resources = << >>
       THEN /\ aggregation' = [aggregation EXCEPT !.pc = "sleep", !.slept = 0]
            /\ UNCHANGED import_log
       ELSE /\ aggregation' = [aggregation EXCEPT !.pc = "bulk_import"]
            /\ import_log' = Append(import_log,
                   [resources |-> aggregation.all_resources, merge |-> TRUE])
    /\ UNCHANGED <<facilitators, http_log, nonceVars, algorandVars, pureVars>>

\* bulk_import answers Ok or Err; both are logged and run_aggregation
\* returns; the task goes to sleep(interval).
BulkImportReturns ==
    /\ aggregation.pc = "bulk_import"
    /\ aggregation' = [aggregation EXCEPT !.pc = "sleep", !.slept = 0]
    /\ UNCHANGED <<facilitators, http_log, import_log, nonceVars, algorandVars, pureVars>>

\* A second of the sleep passes.
SleepTick ==
    /\ aggregation.pc = "sleep"
    /\ aggregation.slept < aggregation.interval_secs
    /\ aggregation' = [aggregation EXCEPT !.slept = @ + 1]
    /\ UNCHANGED <<facilitators, http_log, import_log, nonceVars, algorandVars, pureVars>>

\* Faulty variant of sleep_over: the sleep returns at once.
sleep_over_at_once(slept, interval_secs) == TRUE

\* tokio::time::sleep(interval) returns once the interval has passed.
sleep_over(slept, interval_secs) == slept >= interval_secs

\* The loop of the task: after the sleep, the next run_aggregation.
NextCycle ==
    /\ aggregation.pc = "sleep"
    /\ sleep_over(aggregation.slept, aggregation.interval_secs)
    /\ aggregation.cycle < MaxCycles
    /\ BeginCycle

\* =========================================================================
\*               DISCOVERY AGGREGATOR: FLEXIBLE TIMESTAMP
\* =========================================================================
\* str::trim_end_matches(c).
RECURSIVE trim_end_matches(_, _)
trim_end_matches(s, c) ==
    IF s # << >> /\ s[Len(s)] = c
    THEN trim_end_matches(SubSeq(s, 1, Len(s) - 1), c)
    ELSE s

\* str::find(c): the place of the first c, 0 for None.
find(s, c) ==
    IF \E i \in DOMAIN s : s[i] = c
    THEN CHOOSE i \in DOMAIN s : s[i] = c /\ \A j \in 1..(i - 1) : s[j] # c
    ELSE 0

\* str::split(c).collect().
RECURSIVE split(_, _)
split(s, c) ==
    IF find(s, c) = 0 THEN <<s>>
    ELSE <<SubSeq(s, 1, find(s, c) - 1)>> \o split(SubSeq(s, find(s, c) + 1, Len(s)), c)

\* The number a decimal text stands for.
RECURSIVE decimal_value(_)
decimal_value(d) ==
    IF d = << >> THEN 0
    ELSE decimal_value(SubSeq(d, 1, Len(d) - 1)) * 10 + digit_value(d[Len(d)])

\* parts.filter_map(|p| p.parse::<u32>().ok()).collect(): the parts that
\* are numbers up to u32::MAX (4294967295), as numbers; the others are
\* left out.
filter_map_parse_u32(parts) ==
    LET digits(p) == IF p # << >> /\ p[1] = "+" THEN Tail(p) ELSE p
        parses(p) ==
            /\ digits(p) # << >>
            /\ \A i \in DOMAIN digits(p) :
                \E k \in DOMAIN DecimalDigits : DecimalDigits[k] = digits(p)[i]
            /\ decimal_le(strip_leading_zeros(digits(p)),
                          <<"4", "2", "9", "4", "9", "6", "7", "2", "9", "5">>)
        kept == SelectSeq(parts, parses)
    IN  [i \in DOMAIN kept |-> decimal_value(digits(kept[i]))]

\* Days from 1970-01-01 to the date, negative before it (an i64).
days_since_epoch(year, month, day) ==
    LET y == year - (IF month <= 2 THEN 1 ELSE 0)
        era == IF y >= 0 THEN y \div 400 ELSE -((399 - y) \div 400)
        yoe == y - era * 400
        doy == (153 * (IF month > 2 THEN month - 3 ELSE month + 9) + 2) \div 5 + day - 1
        doe == yoe * 365 + yoe \div 4 - yoe \div 100 + doy
    IN  era * 146097 + doe - 719468

\* Ok(seconds), Err, or a panic.  `days as u64` turns a negative day count
\* into 2^64 + days, and the product with 86400 then overflows: a build
\* with overflow checks panics, one without them wraps.  A negative value
\* n stands for the u64 2^64 + n.
parse_iso8601_to_unix(text, overflow_checks) ==
    LET s == trim_end_matches(text, "Z")
        date_time == IF find(s, ".") > 0 THEN SubSeq(s, 1, find(s, ".") - 1) ELSE s
        parts == split(date_time, "T")
    IN  IF Len(parts) # 2 THEN Err("Invalid ISO8601 format")
        ELSE LET date_parts == filter_map_parse_u32(split(parts[1], "-"))
                 time_parts == filter_map_parse_u32(split(parts[2], ":"))
             IN  IF Len(date_parts) # 3 \/ Len(time_parts) # 3
                 THEN Err("Invalid date/time components")
                 ELSE LET days == days_since_epoch(date_parts[1], date_parts[2],
                                                   date_parts[3])
                          seconds == days * 86400 + time_parts[1] * 3600
                                        + time_parts[2] * 60 + time_parts[3]
                      IN  IF days < 0 /\ overflow_checks THEN Panic ELSE Ok(seconds)

\* The member last_updated of a resource, as JSON: not there, null, an
\* integer (number), a string (text), or anything else.
\* `#[serde(default)]` gives None when the member is missing.
deserialize_flexible_timestamp(json, overflow_checks) ==
    IF json.type \in {"absent", "null"} THEN Ok(None)
    ELSE IF json.type = "integer" THEN Ok(Some(json.number))
    ELSE IF json.type = "string"
    THEN LET parsed == parse_iso8601_to_unix(json.text, overflow_checks)
         IN  IF parsed.ok THEN Ok(Some(parsed.value)) ELSE parsed
    ELSE Err("invalid type")

\* The instants whose ISO-8601 text is deserialized, with and without a
\* fraction of a second.
SampleInstants ==
    { t \in [year : {1969, 1970, 2000, 2024, 2026}, month : {1, 2, 3, 12},
             day : {1, 6, 29, 31}, hour : {0, 20, 23}, minute : {0, 22, 59},
             second : {0, 59}, fraction : {<< >>, <<".", "7", "2", "4">>}] :
        /\ t.day <= (IF t.month = 2
                     THEN (IF t.year % 4 = 0 /\ (t.year % 100 # 0 \/ t.year % 400 = 0)
                           THEN 29 ELSE 28)
                     ELSE 31)
        /\ t.minute = 0 <=> t.hour = 0 }

\* YYYY-MM-DDTHH:MM:SS[.fff]Z
IsoText(t) ==
    LET digit(n, k) == DecimalDigits[((n \div k) % 10) + 1]
        two(n) == <<digit(n, 10), digit(n, 1)>>
    IN  <<digit(t.year, 1000), digit(t.year, 100), digit(t.year, 10), digit(t.year, 1)>>
            \o <<"-">> \o two(t.month) \o <<"-">> \o two(t.day) \o <<"T">>
            \o two(t.hour) \o <<":">> \o two(t.minute) \o <<":">> \o two(t.second)
            \o t.fraction \o <<"Z">>

\* The values of last_updated: the instants above as text, texts that are
\* no timestamps, integers, null, nothing, and a value of another type.
SampleTimestamps ==
    { [type |-> "string", text |-> IsoText(t), instant |-> Some(t)] : t \in SampleInstants }
    \cup { [type |-> "string", text |-> s, instant |-> None] :
            s \in { <<"n", "o", "w">>,
                    <<"2", "0", "2", "6", "-", "0", "1", "-", "0", "6">>,
                    << >> } }
    \cup { [type |-> "integer", number |-> n] : n \in {0, 1, 946684800, 1767730979} }
    \cup { [type |-> k] : k \in {"null", "absent", "boolean"} }

DeserializeFlexibleTimestamp ==
    /\ applied.fn = "none"
    /\ \E json \in SampleTimestamps, overflow_checks \in BOOLEAN :
            applied' = [fn |-> "deserialize_flexible_timestamp",
                        args |-> [json |-> json, overflow_checks |-> overflow_checks],
                        result |-> deserialize_flexible_timestamp(json, overflow_checks)]
    /\ UNCHANGED <<nonceVars, algorandVars, aggregatorVars>>

\* =========================================================================
\*                       ERC-8004: PROOF OF PAYMENT
\* =========================================================================
\* keccak256 is kept as a name applied to its input: two hashes are equal
\* exactly when their inputs are.
keccak256(input) == <<"keccak256", input>>

\* uN::to_be_bytes: the number in `width` bytes, the most significant first.
RECURSIVE to_be_bytes(_, _)
to_be_bytes(n, width) ==
    IF width = 0 THEN << >>
    ELSE to_be_bytes(n \div 256, width - 1) \o <<n % 256>>

\* Faulty variant of compute_payment_hash: the bytes of a hash of any chain
\* are hashed.
compute_payment_hash_any_chain(transaction_hash, block_number, payer, payee, amount) ==
    keccak256(transaction_hash.bytes
                \o to_be_bytes(block_number, 8) \o payer.text \o payee.text
                \o to_be_bytes(amount, 32))

compute_payment_hash_unpadded(transaction_hash, block_number, payer, payee, amount) ==
    keccak256((IF transaction_hash.variant = "Evm" THEN transaction_hash.bytes ELSE << >>)
                \o to_be_bytes(block_number, 8) \o payer.text \o payee.text
                \o to_be_bytes(amount, 32))

\* An address is held with the text its Display writes; the bytes of that
\* text are its characters.
compute_payment_hash(transaction_hash, block_number, payer, payee, amount) ==
    LET data0 == IF transaction_hash.variant = "Evm"
                 THEN transaction_hash.bytes
                 ELSE [i \in 1..32 |-> 0]
        data1 == data0 \o to_be_bytes(block_number, 8)
        data2 == data1 \o payer.text
        data3 == data2 \o payee.text
        data4 == data3 \o to_be_bytes(amount, 32)
    IN  keccak256(data4)

ProofOfPayment_new(transaction_hash, block_number, network, payer, payee, amount, token, timestamp) ==
    [transaction_hash |-> transaction_hash,
     block_number     |-> block_number,
     network          |-> network,
     payer            |-> payer,
     payee            |-> payee,
     amount           |-> amount,
     token            |-> token,
     timestamp        |-> timestamp,
     payment_hash     |-> compute_payment_hash(transaction_hash, block_number,
                                               payer, payee, amount)]

\* Settlement data: EVM hashes of 32 bytes and hashes of other chains,
\* block numbers and amounts of one to four significant bytes, addresses
\* of both kinds, on two networks.
SampleSettlements ==
    [transaction_hash :
        { [variant |-> "Evm", bytes |-> [i \in 1..32 |-> 0]],
          [variant |-> "Evm", bytes |-> [i \in 1..32 |-> 170 + (i % 2)]],
          [variant |-> "Solana", bytes |-> [i \in 1..64 |-> 17]],
          [variant |-> "Algorand", bytes |-> [i \in 1..32 |-> 34]] },
     block_number : {0, 258, 19000000},
     payer : { [variant |-> "Evm", text |-> <<"0", "x", "A", "1">>],
               [variant |-> "Solana", text |-> <<"S", "o", "1">>] },
     payee : { [variant |-> "Evm", text |-> <<"0", "x", "B", "2">>],
               [variant |-> "Evm", text |-> <<"0", "x", "A", "1">>] },
     amount : {0, 1000000, 2147483647},
     settled : { [network |-> "base", token |-> <<"0", "x", "C", "3">>,
                  timestamp |-> 1767730979],
                 [network |-> "solana", token |-> <<"E", "P", "j">>,
                  timestamp |-> 0] }]

ProofOfPaymentNew ==
    /\ applied.fn = "none"
    /\ \E s \in SampleSettlements :
            applied' = [fn |-> "ProofOfPayment::new",
                        args |-> s,
                        result |-> ProofOfPayment_new(
                                        s.transaction_hash, s.block_number,
                                        s.settled.network, s.payer, s.payee, s.amount,
                                        s.settled.token, s.settled.timestamp)]
    /\ UNCHANGED <<nonceVars, algorandVars, aggregatorVars>>

\* =========================================================================
\*             ALGORAND PROVIDER: CONCURRENT SETTLES OF ONE GROUP
\* =========================================================================
\* settle(request) is called with a well-formed group of two that carries
\* group id G1, by any of the tasks sharing the provider, and runs to the
\* status request of verify_payment_group.
ConcurrentSettleStart(t) ==
    /\ calls[t].pc = "idle"
    /\ \E last_valid \in OptLastValid :
          LET fee == [close_remainder_to |-> None, rekey_to |-> None,
                      asset_close_to |-> None, group |-> Some("G1")]
              pay == [sender |-> "PAYER", group |-> Some("G1"),
                      asset_transfer_transaction |->
                          Some([xfer |-> usdc_asa_id(provider_network), amount |-> 1,
                                receiver |-> "MERCHANT"]),
                      last_valid |-> last_valid]
              request == [variant |-> "Algorand", network |-> provider_network,
                          payload |-> [payment_group |->
                                          <<[tx |-> Some(fee), stx |-> None],
                                            [tx |-> None,
                                             stx |-> Some([transaction |-> pay,
                                                           sig |-> "client"])]>>,
                                       payment_index |-> 1]]
              c    == entry_checks(request, provider_network)
              call == [IdleCall EXCEPT !.op = "settle", !.request = request,
                                       !.store_at_start = nonce_store]
          IN  calls' = [calls EXCEPT ![t] =
                           IF c.ok
                           THEN [call EXCEPT !.pc = "status", !.checked = Some(c.value)]
                           ELSE Respond(t, call, c)]
    /\ UNCHANGED <<provider_network, nonce_store, last_round, submitted, nonceVars, aggregatorVars, pureVars>>

\* =========================================================================
\*                  NONCE STORE: THE TWO BACKENDS SIDE BY SIDE
\* =========================================================================
\* One call of check_and_mark_used, with the same key, ttl and clock
\* reading, on a MemoryNonceStore and on a DynamoNonceStore whose request
\* is served without a fault; `applied` holds the two results.
LockstepCheckAndMarkUsed ==
    /\ \E key \in Keys, ttl \in Ttls :
          LET m == Memory_check_and_mark_used(data, key, ttl, clock)
              d == Dynamo_check_and_mark_used(table, key, ttl, clock, FALSE)
          IN  /\ data' = m.data
              /\ table' = d.table
              /\ applied' = [fn |-> "check_and_mark_used",
                             args |-> [key |-> key, ttl |-> ttl, now |-> clock],
                             result |-> [memory |-> m.result, dynamodb |-> d.result]]
    /\ UNCHANGED <<store_type, clock, callers, algorandVars, aggregatorVars>>

\* One call of is_used on both.
LockstepIsUsed ==
    /\ \E key \in Keys :
          LET m == Memory_is_used(data, key, clock)
          IN  /\ data' = m.data
              /\ applied' = [fn |-> "is_used",
                             args |-> [key |-> key, now |-> clock],
                             result |-> [memory |-> m.result,
                                         dynamodb |-> Dynamo_is_used(table, key, clock,
                                                                     FALSE)]]
    /\ UNCHANGED <<store_type, clock, table, callers, algorandVars, aggregatorVars>>

\* Two proofs built from settlement data that agree on the block number,
\* the payer, the payee and the amount.
ProofOfPaymentPair ==
    /\ applied.fn = "none"
    /\ \E s \in SampleSettlements, u \in SampleSettlements :
        /\ u.block_number = s.block_number /\ u.amount = s.amount
        /\ u.payer = s.payer /\ u.payee = s.payee
        /\ applied' = [fn |-> "ProofOfPayment::new twice",
                       args |-> <<s, u>>,
                       result |-> <<ProofOfPayment_new(
                                        s.transaction_hash, s.block_number,
                                        s.settled.network, s.payer, s.payee, s.amount,
                                        s.settled.token, s.settled.timestamp),
                                    ProofOfPayment_new(
                                        u.transaction_hash, u.block_number,
                                        u.settled.network, u.payer, u.payee, u.amount,
                                        u.settled.token, u.settled.timestamp)>>]
    /\ UNCHANGED <<nonceVars, algorandVars, aggregatorVars>>

\* =========================================================================
\*                             SPECIFICATIONS
\* =========================================================================
\* The aggregator as constructed by DiscoveryAggregator::new, every peer
\* enabled, in the specifications in which its task never runs.
AggregatorNotStarted ==
    /\ AggregatorInit
    /\ \A i \in DOMAIN facilitators : facilitators[i].enabled

\* The nonce store alone: the provider stays as constructed.
NonceStoreInit ==
    /\ NonceInit
    /\ AlgorandInit /\ provider_network = "algorand"
    /\ AggregatorNotStarted
    /\ PureInit

NonceNext ==
    \/ \E c \in Callers : Sample(c)
    \/ \E c \in Callers : MemoryComplete(c)
    \/ \E c \in Callers : DynamoComplete(c)
    \/ \E c \in Callers : Return(c)
    \/ \E c \in Callers : IsUsedSample(c)
    \/ \E c \in Callers : MemoryIsUsed(c)
    \/ \E c \in Callers : DynamoIsUsed(c)
    \/ \E c \in Callers : IsUsedReturn(c)
    \/ Tick

SpecNonce == NonceStoreInit /\ [][NonceNext]_vars

\* The Algorand provider alone: no caller of the nonce store.
AlgorandProviderInit ==
    /\ AlgorandInit
    /\ NonceInit /\ store_type = "memory"
    /\ AggregatorNotStarted
    /\ PureInit

AlgorandNext ==
    \/ \E t \in Tasks : AlgorandStart(t)
    \/ \E t \in Tasks : StatusResponse(t)
    \/ \E t \in Tasks : SignAndSend(t)
    \/ \E t \in Tasks : SendResponse(t)
    \/ \E t \in Tasks : Poll(t)
    \/ \E t \in Tasks : MarkNonce(t)
    \/ \E t \in Tasks : AlgorandReturn(t)
    \/ ChainAdvance

SpecAlgorand == AlgorandProviderInit /\ [][AlgorandNext]_vars

\* The two backends given the same calls at the same clock readings.
LockstepNext ==
    \/ LockstepCheckAndMarkUsed
    \/ LockstepIsUsed
    \/ Tick

SpecLockstep == NonceStoreInit /\ [][LockstepNext]_vars

\* The provider shared by two tasks (Arc<AlgorandProvider>) that settle the
\* same group.  The node answers the first poll of a submitted group with
\* its confirmation.
ConcurrentSettlesInit ==
    /\ provider_network \in AlgorandNetworks
    /\ nonce_store = EmptyMap
    /\ last_round = 0
    /\ submitted = {}
    /\ calls = [t \in {"t1", "t2"} |-> IdleCall]
    /\ NonceInit /\ store_type = "memory"
    /\ AggregatorNotStarted
    /\ PureInit

ConcurrentSettlesNext ==
    \/ \E t \in DOMAIN calls : ConcurrentSettleStart(t)
    \/ \E t \in DOMAIN calls : StatusResponse(t)
    \/ \E t \in DOMAIN calls : SignAndSend(t)
    \/ \E t \in DOMAIN calls : SendResponse(t)
    \/ \E t \in DOMAIN calls : Poll(t) /\ calls'[t].pc # "poll"
    \/ \E t \in DOMAIN calls : MarkNonce(t)
    \/ \E t \in DOMAIN calls : AlgorandReturn(t)
    \/ ChainAdvance

SpecConcurrentSettles == ConcurrentSettlesInit /\ [][ConcurrentSettlesNext]_vars

\* The aggregator and its background task alone.
AggregatorTaskInit ==
    /\ AggregatorInit
    /\ NonceInit /\ store_type = "memory"
    /\ AlgorandInit /\ provider_network = "algorand"
    /\ PureInit

AggregatorNext ==
    \/ FirstCycle
    \/ NextFacilitator
    \/ Get
    \/ CallBulkImport
    \/ BulkImportReturns
    \/ SleepTick
    \/ NextCycle

SpecAggregator == AggregatorTaskInit /\ [][AggregatorNext]_vars

\* The task is scheduled by the runtime: a step it can take is taken.
SpecAggregatorFair == SpecAggregator /\ WF_vars(AggregatorNext)

\* The pure functions alone, each applied to the inputs of its family.
PureFunctionsInit ==
    /\ PureInit
    /\ NonceInit /\ store_type = "memory"
    /\ AlgorandInit /\ provider_network = "algorand"
    /\ AggregatorNotStarted

PureNext ==
    \/ StellarTtl
    \/ AlgorandTtl
    \/ ParseDiscoveryResponse
    \/ ParseNetworkToCaip2
    \/ ConvertSingleResource
    \/ DeserializeFlexibleTimestamp
    \/ ProofOfPaymentNew
    \/ ProofOfPaymentPair

SpecPure == PureFunctionsInit /\ [][PureNext]_vars

\* =========================================================================
\*                                 CLAIMS
\* =========================================================================
\* ------------------------------------------------------ nonce store: claims
Done(c) == callers[c].pc = "done"

\* The expires_at a successful call of c stores.
ExpiresAt(c) == callers[c].now + callers[c].ttl

\* The calls of c and d were in flight at the same time, on the same key.
Raced(c, d) == d \in callers[c].raced \/ c \in callers[d].raced

\* The stored expires_at of key in the installed backend (key must be held).
HasRecord(key) ==
    IF store_type = "memory" THEN key \in DOMAIN data ELSE key \in DOMAIN table

StoredExpiresAt(key) ==
    IF store_type = "memory" THEN data[key] ELSE table[key].expires_at

\* Caller c gets its result in this step.
Completes(c) == callers[c].pc = "sampled" /\ callers'[c].pc = "done"

\* C1 as stated: of the callers racing on one key, no two observe Ok.
C1_NoTwoRacersOk ==
    \A c \in Callers, d \in Callers :
        (c # d /\ Done(c) /\ Done(d) /\ Raced(c, d))
            => ~(callers[c].result = "Ok" /\ callers[d].result = "Ok")

\* C1 amended: two callers on one key both observe Ok only when the record
\* written by one had expired at the clock reading of the other (its
\* expires_at <= the other's now); the in-memory backend answers nothing
\* but Ok and NonceAlreadyUsed.
C1_AtMostOneOkPerWindow ==
    /\ \A c \in Callers, d \in Callers :
          (/\ c # d /\ Done(c) /\ Done(d)
           /\ callers[c].key = callers[d].key
           /\ callers[c].result = "Ok" /\ callers[d].result = "Ok")
              => (ExpiresAt(c) <= callers[d].now \/ ExpiresAt(d) <= callers[c].now)
    /\ \A c \in Callers :
          (Done(c) /\ store_type = "memory")
              => callers[c].result \in {"Ok", "NonceAlreadyUsed"}

\* Two callers raced on one key: one observed Ok, the other NonceAlreadyUsed.
C1_Witness ==
    \E c \in Callers, d \in Callers :
        /\ c # d /\ Done(c) /\ Done(d) /\ Raced(c, d)
        /\ callers[c].result = "Ok"
        /\ callers[d].result = "NonceAlreadyUsed"
        /\ callers[d].now < ExpiresAt(c)

\* C4: a call on a key whose stored expires_at is later than the call's now
\* is not answered Ok (the in-memory backend answers NonceAlreadyUsed) and
\* leaves the stored expires_at as it was.
C4_UsedUntilExpiry ==
    [][\A c \in Callers :
          (/\ Completes(c)
           /\ HasRecord(callers[c].key)
           /\ StoredExpiresAt(callers[c].key) > callers[c].now)
              => /\ callers'[c].result # "Ok"
                 /\ store_type = "memory" => callers'[c].result = "NonceAlreadyUsed"
                 /\ data' = data
                 /\ table' = table]_vars

\* A second call at the very second of the first (now < expires_at) was
\* rejected by the in-memory backend and the record still stands.
C4_Witness ==
    \E c \in Callers :
        /\ Done(c) /\ store_type = "memory"
        /\ callers[c].result = "NonceAlreadyUsed"
        /\ callers[c].key \in DOMAIN data
        /\ data[callers[c].key] > callers[c].now
        /\ callers[c].ttl > 0
        /\ data[callers[c].key] = ExpiresAt(c)

\* C5 as stated, for every answer other than a transient write error: Ok and
\* expires_at = now + ttl stored exactly when the key is absent or its stored
\* expires_at <= now; otherwise NonceAlreadyUsed and nothing written.
C5_OkIffAbsentOrExpired ==
    [][\A c \in Callers :
          (Completes(c) /\ callers'[c].result # "WriteError")
              => IF \/ ~HasRecord(callers[c].key)
                    \/ StoredExpiresAt(callers[c].key) <= callers[c].now
                 THEN /\ callers'[c].result = "Ok"
                      /\ HasRecord(callers[c].key)'
                      /\ StoredExpiresAt(callers[c].key)' = ExpiresAt(c)
                 ELSE /\ callers'[c].result = "NonceAlreadyUsed"
                      /\ data' = data
                      /\ table' = table]_vars

\* --------------------------------------------------- Algorand provider: claims
Range(seq) == {seq[i] : i \in 1..Len(seq)}

\* The order of the events of one settlement.
SettleOrder == <<"verified", "signed", "submitted", "confirmed", "marked">>

Group(call) == call.request.payload.payment_group

\* The request reaches the decoding of the fee transaction, and it decodes.
FeeDecoded(call) ==
    /\ call.request.variant = "Algorand"
    /\ call.request.network = provider_network
    /\ Len(Group(call)) >= 2
    /\ call.request.payload.payment_index < Len(Group(call))
    /\ is_some(Group(call)[1].tx)

FeeTx(call) == The(Group(call)[1].tx)

\* The forbidden fields that are set on the fee transaction.
ForbiddenFieldsSet(tx) ==
    {f \in {"close_remainder_to", "rekey_to", "asset_close_to"} :
        \/ f = "close_remainder_to" /\ is_some(tx.close_remainder_to)
        \/ f = "rekey_to" /\ is_some(tx.rekey_to)
        \/ f = "asset_close_to" /\ is_some(tx.asset_close_to)}

\* The signed transaction at payment_index decodes too.
PaymentDecoded(call) ==
    /\ FeeDecoded(call)
    /\ is_some(Group(call)[call.request.payload.payment_index + 1].stx)

PaymentSigned(call) == The(Group(call)[call.request.payload.payment_index + 1].stx)

Finished(call) == call.pc = "done"

Response(call) == The(call.response)

\* verify answered valid; settle answered success.
Accepted(call) ==
    /\ Finished(call)
    /\ Response(call).ok
    /\ call.op = "settle" => Response(call).value.success

\* The call ended with this AlgorandError, turned into a FacilitatorLocalError.
FailedWith(call, name) ==
    /\ Finished(call)
    /\ ~Response(call).ok
    /\ Response(call).error.name = "Other"
    /\ Response(call).error.cause.name = name

\* C2 as stated, for settle: with close_remainder_to, rekey_to or
\* asset_close_to set on the fee transaction, a settle call is rejected and
\* never signs the fee transaction nor submits the group.
C2_ForbiddenFeeFieldRejected ==
    \A t \in Tasks :
        (/\ calls[t].op = "settle"
         /\ FeeDecoded(calls[t])
         /\ ForbiddenFieldsSet(FeeTx(calls[t])) # {})
            => /\ "signed" \notin Range(calls[t].trace)
               /\ "submitted" \notin Range(calls[t].trace)
               /\ ~Accepted(calls[t])

\* C3 as stated: a settle call for a group id that the replay record held
\* when the call began does not sign the fee transaction and does not succeed.
C3_RecordedGroupRejected ==
    \A t \in Tasks :
        (/\ calls[t].op = "settle"
         /\ FeeDecoded(calls[t])
         /\ is_some(FeeTx(calls[t]).group)
         /\ The(FeeTx(calls[t]).group) \in DOMAIN calls[t].store_at_start)
            => /\ "signed" \notin Range(calls[t].trace)
               /\ ~Accepted(calls[t])

\* C6: the events of one settle call occur in the order verified, signed,
\* submitted, confirmed, marked, each one only after all the earlier ones.
C6_SettleOrder ==
    \A t \in Tasks :
        /\ Len(calls[t].trace) <= Len(SettleOrder)
        /\ \A i \in 1..Len(calls[t].trace) : calls[t].trace[i] = SettleOrder[i]
        /\ (calls[t].op = "settle" /\ Accepted(calls[t])) => calls[t].trace = SettleOrder

\* A settle call went through all five steps.
C6_Witness ==
    \E t \in Tasks :
        /\ calls[t].op = "settle" /\ Accepted(calls[t])
        /\ calls[t].trace = SettleOrder

\* The USDC ASA id of the provider's network, as the claim gives it.
ExpectedAsaId ==
    IF provider_network = "algorand" THEN 31566704 ELSE 10458941

\* The checks that precede the comparison of the asset id pass.
ReachesAsaCheck(call) ==
    /\ PaymentDecoded(call)
    /\ validate_fee_transaction(FeeTx(call)).ok
    /\ is_some(FeeTx(call).group)
    /\ is_some(PaymentSigned(call).transaction.group)
    /\ FeeTx(call).group = PaymentSigned(call).transaction.group
    /\ is_some(PaymentSigned(call).transaction.asset_transfer_transaction)

\* C7: a verify that answers valid was given a signed payment that is an
\* asset transfer of the network's USDC ASA id (31566704 on mainnet, 10458941
\* on testnet) in a group whose fee transaction carries the same group id;
\* a differing asset id ends in AsaIdMismatch {expected, actual}.
C7_ValidImpliesUsdcAndGroup ==
    \A t \in Tasks :
        LET call == calls[t] IN
        /\ (call.op = "verify" /\ Accepted(call))
              => /\ ReachesAsaCheck(call)
                 /\ The(PaymentSigned(call).transaction.asset_transfer_transaction).xfer
                        = ExpectedAsaId
        /\ (Finished(call) /\ ReachesAsaCheck(call)
              /\ The(PaymentSigned(call).transaction.asset_transfer_transaction).xfer
                    # ExpectedAsaId)
              => /\ FailedWith(call, "AsaIdMismatch")
                 /\ Response(call).error.cause.expected = ExpectedAsaId
                 /\ Response(call).error.cause.actual =
                        The(PaymentSigned(call).transaction.asset_transfer_transaction).xfer

\* verify answered valid on mainnet.
C7_Witness ==
    \E t \in Tasks :
        /\ calls[t].op = "verify" /\ Accepted(calls[t])
        /\ provider_network = "algorand"
        /\ The(PaymentSigned(calls[t]).transaction.asset_transfer_transaction).xfer = 31566704

\* C8: no step of a verify call signs, submits or writes: the replay record
\* and the groups the node holds stay as they are.
C8_VerifyIsPure ==
    [][\A t \in Tasks :
          (calls[t].op = "verify" \/ calls'[t].op = "verify")
              => /\ nonce_store' = nonce_store
                 /\ submitted' = submitted
                 /\ Range(calls'[t].trace) \subseteq {"verified"}
                 /\ calls'[t].pc \in {"idle", "status", "done"}]_vars

\* verify answered valid while the replay record held a group.
C8_Witness ==
    \E t \in Tasks :
        /\ calls[t].op = "verify" /\ Accepted(calls[t])
        /\ DOMAIN nonce_store # {}
        /\ nonce_store = calls[t].store_at_start

\* C9: when send_transactions fails after a successful verification, settle
\* returns Ok(SettleResponse) with success = false, error_reason =
\* UnexpectedSettleError, the payer of the signed payment, no transaction
\* and the provider's network.
C9_SubmissionFailureResponse ==
    \A t \in Tasks :
        LET call == calls[t] IN
        (/\ call.op = "settle" /\ Finished(call)
         /\ "verified" \in Range(call.trace)
         /\ call.submit_error = Some([name |-> "SubmissionFailed"]))
            => Response(call) =
                  [ok |-> TRUE,
                   value |-> [success |-> FALSE,
                              error_reason |-> {"UnexpectedSettleError"},
                              payer |-> PaymentSigned(call).transaction.sender,
                              transaction |-> {},
                              network |-> provider_network]]

\* send_transactions failed and settle answered.
C9_Witness ==
    \E t \in Tasks :
        /\ calls[t].op = "settle" /\ Finished(calls[t])
        /\ calls[t].submit_error = Some([name |-> "SubmissionFailed"])
        /\ Response(calls[t]).ok
        /\ ~Response(calls[t]).value.success

\* C10: the replay record changes only by the insertion of the call's group
\* id after a poll reported confirmation, and a settle call that has not
\* succeeded leaves it as the call found it.
C10_MarkedOnlyAfterConfirmation ==
    [][\A t \in Tasks :
          /\ nonce_store' # nonce_store
                => /\ "confirmed" \in Range(calls[t].trace)
                   /\ "submitted" \in Range(calls[t].trace)
                   /\ nonce_store' = MapPut(nonce_store,
                                            The(calls[t].verification).group_id,
                                            The(calls[t].verification).current_round)
          /\ (calls'[t].op = "settle" /\ ~Accepted(calls'[t]))
                => nonce_store' = calls'[t].store_at_start]_vars

\* A settle call failed after its group was submitted (no confirmation in
\* twenty polls), and the replay record does not hold the group.
C10_Witness ==
    \E t \in Tasks :
        /\ calls[t].op = "settle" /\ Finished(calls[t])
        /\ calls[t].submit_error =
              Some([name |-> "TransactionNotConfirmed", attempts |-> 20])
        /\ The(calls[t].verification).group_id \notin DOMAIN nonce_store
        /\ nonce_store = calls[t].store_at_start

\* C11: wait_for_confirmation issues at most 20 polls: poll number attempt
\* (1..20) ends the loop with success when it reports a confirmation; any
\* other answer leads to poll attempt + 1 while attempt < 20, and to
\* TransactionNotConfirmed {attempts: 20} at attempt 20.
C11_PollingBounded ==
    [][\A t \in Tasks :
          (calls[t].pc = "poll" /\ calls'[t] # calls[t])
              => /\ calls[t].attempt \in 1..20
                 /\ IF "confirmed" \in Range(calls'[t].trace)
                    THEN /\ calls'[t].pc = "mark"
                         /\ calls'[t].attempt = calls[t].attempt
                    ELSE IF calls[t].attempt < 20
                    THEN /\ calls'[t].pc = "poll"
                         /\ calls'[t].attempt = calls[t].attempt + 1
                    ELSE /\ calls'[t].pc = "done"
                         /\ calls'[t].submit_error =
                               Some([name |-> "TransactionNotConfirmed", attempts |-> 20])]_vars

\* The twentieth poll reported the confirmation.
C11_Witness ==
    \E t \in Tasks :
        /\ calls[t].pc = "mark"
        /\ calls[t].attempt = 20
        /\ "confirmed" \in Range(calls[t].trace)

\* The response of the call names TransactionNotConfirmed: as a raised
\* error or as the error_reason of a SettleResponse.
SurfacesNotConfirmed(call) ==
    \/ FailedWith(call, "TransactionNotConfirmed")
    \/ /\ Response(call).ok
       /\ ~Response(call).value.success
       /\ Response(call).value.error_reason = Some("TransactionNotConfirmed")

\* C12 as stated: a settle call that has a transaction id from
\* send_transactions ends either with the confirmation observed and success
\* reported with that transaction id, or with TransactionNotConfirmed
\* surfaced to the caller.
C12_ConfirmedOrNotConfirmed ==
    \A t \in Tasks :
        LET call == calls[t] IN
        (call.op = "settle" /\ Finished(call) /\ is_some(call.tx_id))
            => \/ /\ "confirmed" \in Range(call.trace)
                  /\ Accepted(call)
                  /\ Response(call).value.transaction = call.tx_id
               \/ /\ "confirmed" \notin Range(call.trace)
                  /\ SurfacesNotConfirmed(call)

\* C13 as stated: the poll whose answer is pending with a pool_error ends
\* the settle call with a failure; no further poll follows it.
C13_PartialConfirmationFatal ==
    [][\A t \in Tasks :
          (calls[t].pc = "poll" /\ ~calls[t].pool_error /\ calls'[t].pool_error)
              => /\ calls'[t].pc = "done"
                 /\ ~Accepted(calls'[t])]_vars

\* C14: the group handed to send_transactions has the length and the order
\* of payload.payment_group: slot 0 is the fee transaction of the payload
\* under the facilitator's signature, every slot i > 0 is the client's signed
\* transaction i, body and signature as supplied.
C14_GroupReassembled ==
    \A t \in Tasks :
        LET call == calls[t] IN
        "submitted" \in Range(call.trace)
            => /\ Len(call.signed_group) = Len(Group(call))
               /\ call.signed_group[1] =
                     [transaction |-> FeeTx(call), sig |-> "facilitator"]
               /\ \A i \in 2..Len(Group(call)) :
                     /\ is_some(Group(call)[i].stx)
                     /\ call.signed_group[i].transaction = The(Group(call)[i].stx).transaction
                     /\ call.signed_group[i].sig = The(Group(call)[i].stx).sig
                     /\ call.signed_group[i].sig = "client"

\* A group of three with the payment in the last slot was submitted.
C14_Witness ==
    \E t \in Tasks :
        /\ "submitted" \in Range(calls[t].trace)
        /\ Len(Group(calls[t])) = 3
        /\ calls[t].request.payload.payment_index = 2
        /\ calls[t].signed_group[2] = OtherSignedTx

\* The request passes the variant and network checks of verify / settle.
ReachesGroupChecks(call) ==
    /\ call.request.variant = "Algorand"
    /\ call.request.network = provider_network

\* C15 as stated: a payment_group shorter than 2 is rejected with
\* InvalidAtomicGroup; with at least 2 transactions, payment_index = 0 or
\* payment_index >= len is rejected with PaymentIndexOutOfBounds; an accepted
\* payload has len >= 2 and 0 < payment_index < len.
C15_PaymentIndexChecked ==
    \A t \in Tasks :
        LET call == calls[t]
            len  == Len(Group(call))
            idx  == call.request.payload.payment_index
        IN  (Finished(call) /\ ReachesGroupChecks(call))
               => /\ len < 2 => FailedWith(call, "InvalidAtomicGroup")
                  /\ (len >= 2 /\ (idx = 0 \/ idx >= len))
                        => FailedWith(call, "PaymentIndexOutOfBounds")
                  /\ Accepted(call) => (len >= 2 /\ 0 < idx /\ idx < len)

\* The last_valid of the signed payment of the call.
LastValid(call) == PaymentSigned(call).transaction.last_valid

\* C16 as stated: a call rejected with TransactionExpired had last_valid <
\* current_round, and every payment that passed verification has a
\* last_valid >= the current round fetched during verification.
C16_AcceptedHasLastValid ==
    \A t \in Tasks :
        LET call == calls[t] IN
        /\ FailedWith(call, "TransactionExpired")
              => /\ is_some(LastValid(call))
                 /\ The(LastValid(call)) < Response(call).error.cause.current_round
        /\ "verified" \in Range(call.trace)
              => /\ is_some(LastValid(call))
                 /\ The(LastValid(call)) >= The(call.verification).current_round

\* C16 amended: when algod.status() answers with round r, verification
\* rejects with TransactionExpired {expiry_round, current_round: r} exactly
\* when the signed payment carries a last_valid < r; otherwise (last_valid >= r,
\* the equal round included, or no last_valid at all) the payment passes with
\* current_round = r.
C16_ExpiredIffPast ==
    [][\A t \in Tasks :
          (/\ calls[t].pc = "status" /\ calls'[t] # calls[t]
           /\ ~FailedWith(calls'[t], "RpcError"))
              => IF /\ is_some(LastValid(calls[t]))
                    /\ The(LastValid(calls[t])) < last_round
                 THEN /\ FailedWith(calls'[t], "TransactionExpired")
                      /\ Response(calls'[t]).error.cause.expiry_round
                            = The(LastValid(calls[t]))
                      /\ Response(calls'[t]).error.cause.current_round = last_round
                 ELSE /\ calls'[t].trace = <<"verified">>
                      /\ The(calls'[t].verification).current_round = last_round
                      /\ calls'[t].op = "verify" => Accepted(calls'[t])]_vars

\* verify answered valid for a payment whose last_valid is the current round.
C16_Witness ==
    \E t \in Tasks :
        /\ calls[t].op = "verify" /\ Accepted(calls[t])
        /\ is_some(LastValid(calls[t]))
        /\ The(LastValid(calls[t])) = The(calls[t].verification).current_round

\* C17 as stated: a request whose payload variant is not the Algorand one
\* fails with InvalidPayload, and nothing of it is decoded, signed or
\* submitted.
C17_WrongVariantInvalidPayload ==
    \A t \in Tasks :
        LET call == calls[t] IN
        (Finished(call) /\ call.request.variant # "Algorand")
            => /\ ~Response(call).ok
               /\ Response(call).error.name = "InvalidPayload"
               /\ call.checked = None
               /\ call.trace = << >>

\* C18 as stated: a settle call that fails answers with a SettleResponse of
\* success = false with an error_reason and the payer, and a verify call
\* that fails answers with a response of valid = false; neither raises.
C18_FailuresAreResponses ==
    \A t \in Tasks :
        LET call == calls[t] IN
        (Finished(call) /\ ~Accepted(call))
            => /\ Response(call).ok
               /\ call.op = "settle"
                     => /\ ~Response(call).value.success
                        /\ is_some(Response(call).value.error_reason)
                        /\ Response(call).value.payer = "PAYER"
               /\ call.op = "verify" => ~Response(call).value.valid

IsUsedCompletes(c) == callers[c].pc = "q_sampled" /\ callers'[c].pc = "q_done"

Applied(fn) == applied.fn = fn

\* C21: for all inputs with expiration >= current, stellar_ttl_seconds is
\* (expiration - current) * 5 + 3600 and algorand_ttl_seconds is
\* (last_valid - current) * 4 + 3600; stellar_ttl(1000, 1100) = 4100 and
\* algorand_ttl(1000, 1100) = 4000.
C21_TtlFormula ==
    /\ Applied("stellar_ttl_seconds") /\ applied.args.expiration >= applied.args.current
        => /\ ~applied.result.panicked
           /\ applied.result.value =
                (applied.args.expiration - applied.args.current) * 5 + 3600
    /\ Applied("algorand_ttl_seconds") /\ applied.args.expiration >= applied.args.current
        => /\ ~applied.result.panicked
           /\ applied.result.value =
                (applied.args.expiration - applied.args.current) * 4 + 3600

\* ----------------------------------------------------- aggregator: claims
\* fetch_all of the current cycle has returned aggregation.all_resources.
FetchAllReturned == aggregation.pc \in {"fetched", "bulk_import", "sleep"}

\* The GETs of the current cycle sent to the peer id, in order.
PeerLog(id) == SelectSeq(http_log, LAMBDA e : e.id = id)

Polled(id) == PeerLog(id) # << >>

\* A GET to the peer id was answered by something else than a page.
PeerFailed(id) == \E i \in DOMAIN PeerLog(id) : PeerLog(id)[i].reply.kind # "page"

\* The resources the pages of log convert to, in the order of the pages.
RECURSIVE PagesConverted(_)
PagesConverted(log) ==
    IF log = << >> THEN << >>
    ELSE PagesConverted(SubSeq(log, 1, Len(log) - 1))
            \o convert_coinbase_resources(
                   PageItems(log[Len(log)].id, log[Len(log)].offset, log[Len(log)].reply),
                   log[Len(log)].id, clock)

\* The resources in the result of fetch_all that come from the peer id.
ResultOf(id) ==
    SelectSeq(aggregation.all_resources, LAMBDA r : r.source = <<"aggregation", id>>)

\* C22: in one cycle of fetch_all no failure of a peer (transport error,
\* non-2xx status, unparseable body) interrupts the cycle: the cycle goes
\* on, every enabled peer is polled and the resources of every peer that
\* did not fail are in the result; no disabled peer is ever requested.
C22_PeerFailureIsolated ==
    /\ \A i \in DOMAIN facilitators :
        ~facilitators[i].enabled => ~Polled(facilitators[i].id)
    /\ aggregation.pc # "panicked"
    /\ FetchAllReturned =>
        \A i \in DOMAIN facilitators :
            facilitators[i].enabled =>
                /\ Polled(facilitators[i].id)
                /\ ~PeerFailed(facilitators[i].id) =>
                    ResultOf(facilitators[i].id) = PagesConverted(PeerLog(facilitators[i].id))

\* fetch_from_facilitator has returned for the i-th config of this cycle.
PeerDone(i) == aggregation.index > i /\ facilitators[i].enabled

\* The peer behind this log reports total = n on every page and serves, at
\* each offset asked, the next min(limit, n - offset) of its n resources,
\* all of them convertible.
ServesInPages(log, n) ==
    \A k \in DOMAIN log :
        /\ log[k].reply.kind = "page"
        /\ log[k].reply.total = Some(n)
        /\ log[k].reply.bad = 0
        /\ log[k].offset <= n
        /\ log[k].reply.len =
            IF n - log[k].offset < limit THEN n - log[k].offset ELSE limit

\* C23: the pagination of one peer starts at offset 0, advances the offset
\* by the size of each received batch and asks for another page after a
\* batch of at least limit = 100 that leaves offset < total, and only
\* then; from a peer
\* that reports total = N and serves its N convertible resources in pages
\* of at most 100, exactly N resources are emitted and the last GET is the
\* one whose page reaches N (N = 150: GETs at offset 0 and 100 only).
C23_Pagination ==
    \A i \in DOMAIN facilitators :
        LET log == PeerLog(facilitators[i].id)
        IN  /\ \A k \in DOMAIN log :
                /\ k = 1 => log[k].offset = 0
                /\ k > 1 =>
                    /\ log[k].offset = log[k - 1].offset + log[k - 1].reply.len
                    /\ log[k - 1].reply.kind = "page"
                    /\ log[k - 1].reply.len >= limit
                    /\ is_some(log[k - 1].reply.total)
                    /\ log[k].offset < The(log[k - 1].reply.total)
            /\ \A k \in DOMAIN log :
                /\ k = Len(log)
                /\ log[k].reply.kind = "page"
                /\ log[k].reply.len >= limit
                /\ is_some(log[k].reply.total)
                /\ log[k].offset + log[k].reply.len < The(log[k].reply.total)
                => /\ aggregation.pc = "fetch_from_facilitator"
                   /\ aggregation.index = i
                   /\ aggregation.offset = log[k].offset + log[k].reply.len
            /\ \A n \in {150, 250} :
                PeerDone(i) /\ ServesInPages(log, n) =>
                    /\ Len(ResultOf(facilitators[i].id)) = n
                    /\ log[Len(log)].offset + log[Len(log)].reply.len = n
                    /\ \A k \in DOMAIN log : log[k].offset = (k - 1) * limit

\* A peer of 150 resources has been fetched with two GETs.
C23_Witness ==
    \E i \in DOMAIN facilitators :
        /\ PeerDone(i)
        /\ ServesInPages(PeerLog(facilitators[i].id), 150)
        /\ Len(PeerLog(facilitators[i].id)) = 2
        /\ Len(ResultOf(facilitators[i].id)) = 150

\* run_aggregation of the current cycle has returned.
CycleFinished == aggregation.pc = "sleep"

\* C24: every aggregation cycle hands all the resources it accumulated to
\* the registry in exactly one bulk_import(resources, merge = true) call,
\* and never writes the registry more than once per cycle.
C24_ExactlyOneImportPerCycle ==
    /\ Len(import_log) <= 1
    /\ CycleFinished =>
        import_log = <<[resources |-> aggregation.all_resources, merge |-> TRUE]>>

\* C24, amended: a cycle calls bulk_import at most once, and only after
\* fetch_all has returned at least one resource: the call is then
\* bulk_import(all the resources fetch_all returned, merge = true), and a
\* finished cycle that fetched at least one resource has made it.  A cycle
\* whose fetch_all returned nothing makes no call.
C24_OneImportOfNonEmptyCycle ==
    /\ Len(import_log) <= 1
    /\ import_log # << >> =>
        /\ aggregation.pc \in {"bulk_import", "sleep"}
        /\ aggregation.all_resources # << >>
        /\ import_log = <<[resources |-> aggregation.all_resources, merge |-> TRUE]>>
    /\ CycleFinished /\ aggregation.all_resources # << >> => import_log # << >>
    /\ CycleFinished /\ aggregation.all_resources = << >> => import_log = << >>

\* A finished cycle that handed the resources of two peers over in one call.
C24_Witness ==
    /\ CycleFinished
    /\ Len(import_log) = 1
    /\ \A i \in DOMAIN facilitators : ResultOf(facilitators[i].id) # << >>

\* C25: the background task runs its first cycle at once, without a delay
\* before it; each later cycle starts only when the cycle before it has
\* finished and interval_secs have passed since; cycles never overlap.
C25_CyclesInTurn ==
    [][ /\ aggregation.pc = "spawned" =>
            /\ aggregation.slept = 0
            /\ aggregation'.cycle = 1
            /\ aggregation'.pc = "fetch_all"
        /\ aggregation'.cycle # aggregation.cycle =>
            /\ aggregation'.cycle = aggregation.cycle + 1
            /\ aggregation'.pc = "fetch_all"
            /\ \/ aggregation.pc = "spawned" /\ aggregation.cycle = 0
               \/ /\ aggregation.pc = "sleep"
                  /\ aggregation.cycle > 0
                  /\ aggregation.slept >= aggregation.interval_secs
      ]_vars

\* The second cycle has started, after the sleep that follows the first.
C25_Witness ==
    /\ aggregation.cycle = 2
    /\ aggregation.pc = "fetch_all"
    /\ aggregation.interval_secs > 0

\* C26: parse_discovery_response tries the shapes {items, pagination},
\* {data: {items, pagination}}, {resources, pagination} and bare array in
\* this order and returns the items and pagination of the first that
\* parses; a body in none of the four yields ParseError.
C26_FirstShapeThatParses ==
    Applied("parse_discovery_response") =>
        LET json == applied.args.json
            standard == from_json_CoinbaseDiscoveryResponse(json)
            wrapped == from_json_WrappedDiscoveryResponse(json)
            alternative == from_json_AlternativeDiscoveryResponse(json)
            array == from_json_resources(json)
        IN  applied.result =
                IF standard.ok
                THEN Ok(<<standard.value.items, standard.value.pagination>>)
                ELSE IF wrapped.ok
                THEN Ok(<<wrapped.value.data.items, wrapped.value.data.pagination>>)
                ELSE IF alternative.ok
                THEN Ok(<<alternative.value.resources, alternative.value.pagination>>)
                ELSE IF array.ok
                THEN Ok(<<array.value, None>>)
                ELSE Err("ParseError")

\* The text is "eip155:" followed by decimal digits.
IsEip155Text(s) ==
    /\ starts_with(s, EIP155 \o <<":">>)
    /\ Len(s) > Len(EIP155) + 1
    /\ \A i \in (Len(EIP155) + 2)..Len(s) :
        \E k \in DOMAIN DecimalDigits : DecimalDigits[k] = s[i]

\* The result is the network eip155:<chain_id>.
IsEip155(result, chain_id) ==
    /\ is_some(result)
    /\ Caip2NetworkId_to_string(The(result)) = EIP155 \o <<":">> \o chain_id

\* C27: parse_network_to_caip2 maps every listed legacy network name to its
\* eip155:<chainId>, passes an eip155:<chainId> input through unchanged,
\* maps a text that parses as an integer n to eip155:n, and returns nothing
\* for any other text.
C27_NamesAsListed ==
    Applied("parse_network_to_caip2") =>
        IF \E row \in NetworkNames : row[1] = applied.args
        THEN \A row \in NetworkNames :
                row[1] = applied.args => IsEip155(applied.result, row[2])
        ELSE IF IsEip155Text(applied.args)
        THEN /\ is_some(applied.result)
             /\ Caip2NetworkId_to_string(The(applied.result)) = applied.args
        ELSE IF is_some(parse_u64(applied.args))
        THEN IsEip155(applied.result, The(parse_u64(applied.args)))
        ELSE applied.result = None

\* C27, amended: the legacy names are matched in any letter case, and a
\* text that starts with "eip155:" is left to the CAIP-2 parser, which
\* passes eip155:<chainId> through unchanged.
C27_NamesInAnyCase ==
    Applied("parse_network_to_caip2") =>
        IF \E row \in NetworkNames : row[1] = to_lowercase(applied.args)
        THEN \A row \in NetworkNames :
                row[1] = to_lowercase(applied.args) => IsEip155(applied.result, row[2])
        ELSE IF starts_with(applied.args, EIP155 \o <<":">>)
        THEN /\ applied.result = Caip2NetworkId_parse(applied.args)
             /\ IsEip155Text(applied.args) =>
                    /\ is_some(applied.result)
                    /\ Caip2NetworkId_to_string(The(applied.result)) = applied.args
        ELSE IF is_some(parse_u64(applied.args))
        THEN IsEip155(applied.result, The(parse_u64(applied.args)))
        ELSE applied.result = None

\* "BASE" has been mapped to eip155:8453.
C27_Witness ==
    /\ Applied("parse_network_to_caip2")
    /\ applied.args = <<"B", "A", "S", "E">>
    /\ IsEip155(applied.result, <<"8", "4", "5", "3">>)

\* The text is "0x" followed by 40 hexadecimal digits.
IsEvmAddressText(s) ==
    /\ Len(s) = 42
    /\ s[1] = "0" /\ s[2] = "x"
    /\ \A i \in 3..42 : s[i] \in HexDigits

\* The requirement names a recognized network and two EVM addresses.
Convertible(req) ==
    /\ is_some(req.network) /\ is_some(parse_network_to_caip2(The(req.network)))
    /\ is_some(req.asset) /\ IsEvmAddressText(The(req.asset))
    /\ is_some(req.pay_to) /\ IsEvmAddressText(The(req.pay_to))

\* C28: a requirement whose network is unrecognized or whose asset or
\* pay-to is not an EVM address is dropped on its own: the resource is
\* emitted with the other requirements, in their original order, and with
\* an empty accepts list when all of them are dropped.
C28_RequirementsDroppedAlone ==
    Applied("convert_single_resource") /\ applied.args.url.parses =>
        LET kept == SelectSeq(applied.args.accepts, Convertible)
        IN  /\ applied.result.ok
            /\ Len(applied.result.value.accepts) = Len(kept)
            /\ \A k \in DOMAIN kept :
                /\ applied.result.value.accepts[k].network =
                        The(parse_network_to_caip2(The(kept[k].network)))
                /\ applied.result.value.accepts[k].asset.bytes =
                        to_lowercase(SubSeq(The(kept[k].asset), 3, 42))
                /\ applied.result.value.accepts[k].pay_to.bytes =
                        to_lowercase(SubSeq(The(kept[k].pay_to), 3, 42))

\* A resource has been emitted without the second of its three requirements.
C28_Witness ==
    /\ Applied("convert_single_resource")
    /\ applied.result.ok
    /\ Len(applied.args.accepts) = 3
    /\ ~Convertible(applied.args.accepts[2])
    /\ Len(applied.result.value.accepts) = 2

\* -------------------------------------------------------------------------
\* The civil calendar, counted day by day: the seconds from
\* 1970-01-01T00:00:00Z to the instant, negative before it.
LeapYear(y) == y % 4 = 0 /\ (y % 100 # 0 \/ y % 400 = 0)

RECURSIVE DaysToYear(_)
DaysToYear(y) ==
    IF y = 1970 THEN 0
    ELSE IF y > 1970
    THEN DaysToYear(y - 1) + (IF LeapYear(y - 1) THEN 366 ELSE 365)
    ELSE DaysToYear(y + 1) - (IF LeapYear(y) THEN 366 ELSE 365)

RECURSIVE DaysToMonth(_, _)
DaysToMonth(y, m) ==
    IF m = 1 THEN 0
    ELSE DaysToMonth(y, m - 1)
            + (IF m - 1 = 2 THEN (IF LeapYear(y) THEN 29 ELSE 28)
               ELSE IF m - 1 \in {4, 6, 9, 11} THEN 30 ELSE 31)

UnixSeconds(t) ==
    (DaysToYear(t.year) + DaysToMonth(t.year, t.month) + t.day - 1) * 86400
        + t.hour * 3600 + t.minute * 60 + t.second

\* C29: the flexible last_updated parser returns an integer unchanged; for
\* the text YYYY-MM-DDTHH:MM:SS[.fff]Z of an instant it returns the whole
\* Unix seconds of that instant, the fraction discarded, so the same with
\* and without a fraction, 0 for 1970-01-01T00:00:00Z and 946684800 for
\* 2000-01-01T00:00:00Z; null or a missing member gives no value.
C29_FlexibleTimestamp ==
    Applied("deserialize_flexible_timestamp") =>
        LET json == applied.args.json
        IN  /\ json.type = "integer" => applied.result = Ok(Some(json.number))
            /\ json.type \in {"null", "absent"} => applied.result = Ok(None)
            /\ (json.type = "string" /\ is_some(json.instant)) =>
                    LET t == The(json.instant)
                    IN  /\ applied.result.ok
                        /\ is_some(applied.result.value)
                        /\ The(applied.result.value) >= 0
                        /\ The(applied.result.value) = UnixSeconds(t)
                        /\ (t.year = 1970 /\ t.month = 1 /\ t.day = 1 /\ t.hour = 0
                                /\ t.minute = 0 /\ t.second = 0)
                                => The(applied.result.value) = 0
                        /\ (t.year = 2000 /\ t.month = 1 /\ t.day = 1 /\ t.hour = 0
                                /\ t.minute = 0 /\ t.second = 0)
                                => The(applied.result.value) = 946684800

\* -------------------------------------------------------------------------
\* The number a big-endian byte string stands for.
RECURSIVE BigEndian(_)
BigEndian(bytes) ==
    IF bytes = << >> THEN 0
    ELSE BigEndian(SubSeq(bytes, 1, Len(bytes) - 1)) * 256 + bytes[Len(bytes)]

\* C30: the payment_hash of every ProofOfPayment built by
\* ProofOfPayment::new is keccak256 of the 32 bytes of the transaction hash
\* (32 zero bytes when it is not an EVM hash), then the block number in 8
\* big-endian bytes, the text of the payer, the text of the payee, and the
\* amount in 32 big-endian bytes; building it again from the same inputs
\* gives the same hash.
C30_PaymentHash ==
    Applied("ProofOfPayment::new") =>
        LET s == applied.args
            hash == applied.result.payment_hash
            preimage == hash[2]
            p == Len(s.payer.text)
            q == Len(s.payee.text)
        IN  /\ hash[1] = "keccak256"
            /\ Len(preimage) = 32 + 8 + p + q + 32
            /\ \A i \in 1..32 :
                    preimage[i] = IF s.transaction_hash.variant = "Evm"
                              THEN s.transaction_hash.bytes[i] ELSE 0
            /\ BigEndian(SubSeq(preimage, 33, 40)) = s.block_number
            /\ SubSeq(preimage, 41, 40 + p) = s.payer.text
            /\ SubSeq(preimage, 41 + p, 40 + p + q) = s.payee.text
            /\ \A i \in 1..28 : preimage[40 + p + q + i] = 0
            /\ BigEndian(SubSeq(preimage, 69 + p + q, 72 + p + q)) = s.amount
            /\ ProofOfPayment_new(s.transaction_hash, s.block_number, s.settled.network,
                                  s.payer, s.payee, s.amount, s.settled.token,
                                  s.settled.timestamp).payment_hash = hash

\* A proof of a payment whose transaction hash is not an EVM hash, with a
\* block number and an amount of more than one byte.
C30_Witness ==
    /\ Applied("ProofOfPayment::new")
    /\ applied.args.transaction_hash.variant # "Evm"
    /\ applied.args.block_number > 255
    /\ applied.args.amount > 255
    /\ applied.args.payer # applied.args.payee

\* ------------------------------------------- concurrent settles: claims
\* The call has signed the fee transaction of group g.
SignedGroup(call, g) ==
    /\ "signed" \in Range(call.trace)
    /\ The(call.verification).group_id = g

\* C31 as stated: of the settle calls that carry one group id, at most one
\* signs and submits the group: no two calls in progress have both signed
\* it, and no call signs it that began after another call had settled it.
C31_GroupSignedAtMostOnce ==
    \A g \in GroupIds :
        \A t \in DOMAIN calls :
            SignedGroup(calls[t], g) =>
                /\ g \notin DOMAIN calls[t].store_at_start
                /\ \A u \in DOMAIN calls \ {t} : ~SignedGroup(calls[u], g)

\* ------------------------------------------- the two backends: claims
\* C32 as stated: given the same sequence of check_and_mark_used and is_used
\* calls, with the same keys, TTLs and clock readings, the in-memory and
\* the DynamoDB backend return the same result for every call.
C32_BackendsAgree ==
    (Applied("check_and_mark_used") \/ Applied("is_used")) =>
        applied.result.memory = applied.result.dynamodb

\* C33: every SettleResponse the provider returns has success = true
\* exactly when a transaction is present and exactly when error_reason is
\* absent, carries the provider's network, and names as payer the sender of
\* the signed payment transaction at payment_index.
C33_SettleResponseShape ==
    \A t \in Tasks :
        LET call == calls[t] IN
        (call.op = "settle" /\ Finished(call) /\ Response(call).ok)
            => LET r == Response(call).value
               IN  /\ r.success <=> is_some(r.transaction)
                   /\ r.success <=> ~is_some(r.error_reason)
                   /\ r.network = provider_network
                   /\ PaymentDecoded(call)
                   /\ r.payer = PaymentSigned(call).transaction.sender

\* settle answered a failure response for a group of three whose payment
\* is not in the slot after the fee transaction.
C33_Witness ==
    \E t \in Tasks :
        /\ calls[t].op = "settle" /\ Finished(calls[t]) /\ Response(calls[t]).ok
        /\ ~Response(calls[t]).value.success
        /\ Len(Group(calls[t])) = 3
        /\ calls[t].request.payload.payment_index = 2

\* C34 as stated: for every pair of inputs, expiration < current and values
\* near the integer maximum included, stellar_ttl_seconds and
\* algorand_ttl_seconds return at least 3600; an already-expired window
\* gives exactly 3600, and the multiplication and the addition do not wrap
\* around (the result is the exact sum).
C34_BufferNeverLost ==
    (Applied("stellar_ttl_seconds") \/ Applied("algorand_ttl_seconds")) =>
        LET remaining == saturating_sub(applied.args.expiration, applied.args.current)
            per_unit  == IF Applied("stellar_ttl_seconds") THEN 5 ELSE 4
        IN  /\ ~applied.result.panicked
            /\ applied.result.value >= 3600
            /\ applied.args.expiration < applied.args.current
                    => applied.result.value = 3600
            /\ applied.result.value = remaining * per_unit + 3600

\* The largest total the pages of log report, 0 when none reports one.
LargestTotal(log) ==
    LET totals == {The(log[k].reply.total) : k \in {j \in DOMAIN log : is_some(log[j].reply.total)}}
    IN  IF totals = {} THEN 0 ELSE CHOOSE n \in totals : \A m \in totals : m <= n

\* C35: the pagination of one peer terminates: while every answer is a
\* page and no reported total exceeds T, fetch_from_facilitator sends at
\* most T / 100 + 1 GETs to the peer, and a page without a total is the
\* last one asked.
C35_PaginationTerminates ==
    \A i \in DOMAIN facilitators :
        LET log == PeerLog(facilitators[i].id)
            pending == aggregation.pc = "fetch_from_facilitator" /\ aggregation.index = i
        IN  (\A k \in DOMAIN log : log[k].reply.kind = "page") =>
                /\ \A T \in {150, 250} :
                    LargestTotal(log) <= T =>
                        /\ Len(log) <= T \div limit + 1
                        /\ Len(log) = T \div limit + 1 => ~pending
                /\ \A k \in DOMAIN log :
                    ~is_some(log[k].reply.total) => k = Len(log) /\ ~pending

\* A peer reporting total = 250 was sent three GETs, the bound for T = 250,
\* each answered by a full page.
C35_Witness ==
    \E i \in DOMAIN facilitators :
        LET log == PeerLog(facilitators[i].id)
        IN  /\ Len(log) = 3
            /\ \A k \in DOMAIN log :
                log[k].reply.kind = "page" /\ log[k].reply.len = limit
                    /\ log[k].reply.total = Some(250)

\* C36: a peer contributes to a cycle all or nothing: once
\* fetch_from_facilitator has returned for it, the result of fetch_all
\* holds none of its resources if any of its page requests failed
\* (transport error, non-2xx status, parse error), and otherwise all the
\* resources its pages convert to, in page order.
C36_PeerAllOrNothing ==
    \A i \in DOMAIN facilitators :
        PeerDone(i) =>
            ResultOf(facilitators[i].id) =
                IF PeerFailed(facilitators[i].id)
                THEN << >>
                ELSE PagesConverted(PeerLog(facilitators[i].id))

\* fetch_all has returned after a peer answered a full first page and
\* failed on the second request, and another peer was fetched in two pages.
C36_Witness ==
    /\ FetchAllReturned
    /\ \E i \in DOMAIN facilitators :
        LET log == PeerLog(facilitators[i].id)
        IN  /\ Len(log) = 2
            /\ log[1].reply.kind = "page" /\ log[1].reply.len = limit
            /\ log[2].reply.kind # "page"
            /\ ResultOf(facilitators[i].id) = << >>
    /\ \E i \in DOMAIN facilitators :
        /\ ~PeerFailed(facilitators[i].id)
        /\ Len(PeerLog(facilitators[i].id)) = 2
        /\ Len(ResultOf(facilitators[i].id)) > limit

\* C37: payment_hash depends only on the transaction hash when it is an
\* EVM hash, the block number, the payer, the payee and the amount: two
\* proofs that agree on the last four, and whose transaction hashes are
\* equal or both not EVM hashes, have the same payment_hash, whatever
\* their network, token and timestamp.
C37_HashDependsOnCoreFields ==
    Applied("ProofOfPayment::new twice") =>
        LET p == applied.result[1]
            q == applied.result[2]
        IN  (/\ p.block_number = q.block_number
             /\ p.payer = q.payer /\ p.payee = q.payee
             /\ p.amount = q.amount
             /\ \/ p.transaction_hash = q.transaction_hash
                \/ /\ p.transaction_hash.variant # "Evm"
                   /\ q.transaction_hash.variant # "Evm")
                => p.payment_hash = q.payment_hash

\* Two proofs of payments on different chains, with different non-EVM
\* transaction hashes, tokens and timestamps, and one payment_hash.
C37_Witness ==
    /\ Applied("ProofOfPayment::new twice")
    /\ applied.result[1].transaction_hash.variant # "Evm"
    /\ applied.result[2].transaction_hash.variant # "Evm"
    /\ applied.result[1].transaction_hash # applied.result[2].transaction_hash
    /\ applied.result[1].network # applied.result[2].network
    /\ applied.result[1].token # applied.result[2].token
    /\ applied.result[1].timestamp # applied.result[2].timestamp
    /\ applied.result[1].payment_hash = applied.result[2].payment_hash

\* C38 as stated: the background task never stops by itself: whatever
\* happened in a cycle (every peer failed, nothing was fetched, bulk_import
\* failed), the task sleeps and runs the next cycle, so that under fairness
\* every cycle is followed by another one (here up to cycle MaxCycles).
C38_TaskNeverStops ==
    \A k \in 0..(MaxCycles - 1) :
        (aggregation.cycle = k) ~> (aggregation.cycle = k + 1)

====
